---- MODULE Spec2Model ----
(***************************************************************************)
(* Verification model of the key-value service:                            *)
(*   - the record stream readers of public/data_loading/readers            *)
(*     (RiegeliStreamReader and ConcurrentStreamRecordReader),             *)
(*   - the UDF client of components/udf (UdfClientImpl),                   *)
(*   - the getValues hook of components/udf/hooks (GetValuesHookImpl),     *)
(*   - the request handlers of components/data_server/request_handler, and *)
(*   - the sharded server initializer of components/data_server/server.    *)
(* Each component has its own specification over the shared variables;     *)
(* the variables of the other components stay at their initial value.      *)
(***************************************************************************)
EXTENDS Integers, Sequences, FiniteSets, TLC

(***************************************************************************)
(* Bounds of the model.                                                    *)
(***************************************************************************)
MaxStreamSize == 5
MaxWorkers == 5
MaxMinShardSize == 2
MaxChunkRecords == 2
MaxChunks == 3
MaxLct == 1
MaxArgs == 2
MaxPending == 1
MaxKeys == 2
MaxPartitions == 2
MaxContexts == 2
MaxShards == 2
MaxReplicas == 2
MaxAttempts == 2
MaxCommitTime == 2
MaxLookups == 2

\* constexpr int64_t kDefaultMinShardSize = 8 * 1024 * 1024
kDefaultMinShardSize == 8388608

VARIABLES
    stream,      \* the record stream: size, chunk layout, seekability
    options,     \* ConcurrentStreamRecordReader::Options
    reader_kind, \* which StreamRecordReader runs: "Concurrent" or "Riegeli"
    build,       \* outcome of BuildShards: status, shards, shard_size
    tasks,       \* the shard reader tasks (std::async futures), by shard index
    rs,          \* ReadStreamRecords of the calling thread
    seq,         \* RiegeliStreamReader::ReadStreamRecords
    delivered,   \* how often the callback was invoked for each record
    udf,         \* UdfClientImpl: handler_name_, logical_commit_time_, version_
    roma,        \* Roma: the loaded code, the requests it has not answered
    set_call,    \* the call of UdfClientImpl::SetCodeObject
    exec_call,   \* the call of UdfClientImpl::ExecuteCode
    hook,        \* GetValuesHookImpl: output_type_, lookup_, the last invocation
    cache,       \* Cache: the entries and the set values, and what was written
    sharded,     \* ShardedServerInitializer::InitializeUdfHooks and the cluster
    v1,          \* GetValuesAdapterImpl: the last CallV2Handler call
    v2,          \* GetValuesV2Handler: the UDF's behaviour, the last GetValuesHttp
                 \* call and the last call of another kind
    threads,     \* threads inside UdfClientImpl::SetCodeObject and ExecuteCode
    handler,     \* GetValuesHandler: use_v2_, the cache, the counters, the call
    param        \* GcpParameterClient: the GetParameter call in progress

readerVars == <<stream, options, reader_kind, build, tasks, rs, seq, delivered>>

udfVars == <<udf, roma, set_call, exec_call>>

lateVars == <<threads, handler, param>>

serverVars == <<cache, hook, sharded, v1, v2, threads, handler, param>>

vars == <<stream, options, reader_kind, build, tasks, rs, seq, delivered,
          udf, roma, set_call, exec_call, cache, hook, sharded, v1, v2,
          threads, handler, param>>

Min(a, b) == IF a < b THEN a ELSE b
Max(a, b) == IF a > b THEN a ELSE b

(***************************************************************************)
(* absl::Status values.  a and b carry the numbers formatted into the      *)
(* message (or the shard that produced a reader status).                   *)
(***************************************************************************)
Status(code, msg, a, b) == [code |-> code, msg |-> msg, a |-> a, b |-> b]
OkStatus == Status("OK", "", 0, 0)
IsOk(s) == s.code = "OK"
SeekUnsupportedError ==
    Status("INVALID_ARGUMENT", "Input streams do not support seeking.", 0, 0)
FailedToGenerateShards == Status("INTERNAL", "Failed to generate shards.", 0, 0)
SkippedRecordsError(prev_next, curr_first) ==
    Status("INTERNAL", "Skipped some records between byte=%d and byte=%d.",
           prev_next, curr_first)
\* record_reader.status() of the reader of shard i after a failed Seek / read
SeekFailedStatus(i) == Status("READER", "seek failed", i, 0)
ReadFailedStatus(i) == Status("READER", "read failed", i, 0)

(***************************************************************************)
(* The record stream.  A Riegeli stream of `size` bytes is a sequence of   *)
(* chunks; `begins` is the set of chunk start offsets and nrec[b] the      *)
(* number of records of the chunk starting at b.  The chunk at offset 0 is *)
(* the file signature and holds no record; a chunk holds at most as many   *)
(* records as it has bytes, so that the numeric position chunk_begin +     *)
(* record_index identifies a record.                                       *)
(***************************************************************************)
ChunkEnd(f, b) ==
    LET later == {x \in f.begins : x > b}
    IN IF later = {} THEN f.size
       ELSE CHOOSE x \in later : \A y \in later : x <= y

ChunkBeginContaining(f, p) ==
    LET before == {x \in f.begins : x <= p}
    IN CHOOSE x \in before : \A y \in before : y <= x

Records(f) == {r \in 0..f.size : \E b \in f.begins : r >= b /\ r < b + f.nrec[b]}

Streams ==
    {[size |-> 0, begins |-> {}, nrec |-> <<>>, seekable |-> s] : s \in BOOLEAN}
    \cup
    UNION {
      UNION {
        { [size |-> S, begins |-> B \cup {0}, nrec |-> n, seekable |-> s] :
            n \in { m \in [B \cup {0} -> 0..MaxChunkRecords] :
                       /\ m[0] = 0
                       /\ \A b \in B :
                            m[b] <= (IF \E x \in B : x > b
                                     THEN (CHOOSE x \in B : x > b /\ \A y \in B : y > b => x <= y)
                                     ELSE S) - b },
            s \in BOOLEAN }
        : B \in {X \in SUBSET (1..(S - 1)) : Cardinality(X) < MaxChunks} }
      : S \in 1..MaxStreamSize }

(***************************************************************************)
(* riegeli::RecordReader as used by the readers.  A reader state holds the *)
(* chunk that is decoded (chunk_begin, num_records), the index of the next *)
(* record in it, and the position of the chunk reader (the end of the      *)
(* decoded chunk).                                                         *)
(***************************************************************************)
FreshReader == [chunk_begin |-> 0, index |-> 0, num_records |-> 0, chunk_pos |-> 0]

\* record_reader.pos().numeric()
Pos(rd) ==
    IF rd.index < rd.num_records THEN rd.chunk_begin + rd.index ELSE rd.chunk_pos

\* record_reader.Seek(new_pos) on a freshly opened reader, when it succeeds
Seek(f, new_pos) ==
    IF new_pos = 0 THEN FreshReader
    ELSE IF new_pos >= f.size
    THEN [chunk_begin |-> f.size, index |-> 0, num_records |-> 0, chunk_pos |-> f.size]
    ELSE LET b == ChunkBeginContaining(f, new_pos)
         IN IF b >= new_pos
            THEN [chunk_begin |-> b, index |-> 0, num_records |-> 0, chunk_pos |-> b]
            ELSE [chunk_begin |-> b, index |-> Min(new_pos - b, f.nrec[b]),
                  num_records |-> f.nrec[b], chunk_pos |-> ChunkEnd(f, b)]

\* record_reader.ReadRecord(record) when the reader stays ok(): the next
\* record of the decoded chunk, else of the following chunks; found = FALSE
\* at the end of the stream.
RECURSIVE ReadRecord(_, _)
ReadRecord(f, rd) ==
    IF rd.index < rd.num_records
    THEN [found |-> TRUE, rec |-> rd.chunk_begin + rd.index,
          rd |-> [rd EXCEPT !.index = rd.index + 1]]
    ELSE IF rd.chunk_pos >= f.size
    THEN [found |-> FALSE, rec |-> -1, rd |-> rd]
    ELSE ReadRecord(f, [chunk_begin |-> rd.chunk_pos, index |-> 0,
                        num_records |-> f.nrec[rd.chunk_pos],
                        chunk_pos |-> ChunkEnd(f, rd.chunk_pos)])

(***************************************************************************)
(* ConcurrentStreamRecordReader::BuildShards                               *)
(***************************************************************************)
\* int64_t(std::ceil((double)a / b))
CeilDiv(a, b) == IF a % b = 0 THEN a \div b ELSE (a \div b) + 1

\* mutant: the shard size does not depend on the number of worker threads
ShardSize_MinOnly(stream_size, num_worker_threads, min_shard_size_bytes) ==
    Min(stream_size, min_shard_size_bytes)

\* mutant: the shard size is not capped by the stream size
ShardSize_Uncapped(stream_size, num_worker_threads, min_shard_size_bytes) ==
    Max(CeilDiv(stream_size, num_worker_threads), min_shard_size_bytes)

ShardSize(stream_size, num_worker_threads, min_shard_size_bytes) ==
    Min(stream_size, Max(CeilDiv(stream_size, num_worker_threads), min_shard_size_bytes))

\* mutant: the next shard starts two bytes after the end of the previous one
NextShardStart_Skip(shard_end_pos) == shard_end_pos + 2

NextShardStart(shard_end_pos) == shard_end_pos + 1

RECURSIVE ShardLoop(_, _, _, _)
ShardLoop(shard_start_pos, shard_size, stream_size, shards) ==
    IF shard_start_pos < stream_size
    THEN LET shard_end_pos == Min(shard_start_pos + shard_size, stream_size)
         IN ShardLoop(NextShardStart(shard_end_pos), shard_size, stream_size,
                      Append(shards, [start_pos |-> shard_start_pos,
                                      end_pos |-> shard_end_pos]))
    ELSE shards

\* mutant: an empty shard list is returned with an OK status
BuildShards_EmptyOk(f, opts) ==
    IF ~f.seekable
    THEN [status |-> SeekUnsupportedError, shards |-> <<>>, shard_size |-> 0,
          generated |-> <<>>]
    ELSE LET shard_size == ShardSize(f.size, opts.num_worker_threads,
                                     opts.min_shard_size_bytes)
             shards == ShardLoop(0, shard_size, f.size, <<>>)
         IN IF shards # <<>> /\ shards[Len(shards)].end_pos # f.size
            THEN [status |-> FailedToGenerateShards, shards |-> <<>>,
                  shard_size |-> shard_size, generated |-> shards]
            ELSE [status |-> OkStatus, shards |-> shards, shard_size |-> shard_size,
                  generated |-> shards]

BuildShards(f, opts) ==
    IF ~f.seekable
    THEN [status |-> SeekUnsupportedError, shards |-> <<>>, shard_size |-> 0,
          generated |-> <<>>]
    ELSE LET shard_size == ShardSize(f.size, opts.num_worker_threads,
                                     opts.min_shard_size_bytes)
             shards == ShardLoop(0, shard_size, f.size, <<>>)
         IN IF shards = <<>> \/ shards[Len(shards)].end_pos # f.size
            THEN [status |-> FailedToGenerateShards, shards |-> <<>>,
                  shard_size |-> shard_size, generated |-> shards]
            ELSE [status |-> OkStatus, shards |-> shards, shard_size |-> shard_size,
                  generated |-> shards]

(***************************************************************************)
(* ConcurrentStreamRecordReader::ReadShardRecords, one task per shard      *)
(***************************************************************************)
NoResult == [first_record_pos |-> -1, next_shard_first_record_pos |-> -1,
             num_records_read |-> 0]

LaunchedTask == [pc |-> "launched", rd |-> FreshReader, next_record_pos |-> 0,
                 overall_ok |-> TRUE, status |-> OkStatus, result |-> NoResult]

Finished(t) == t.pc \in {"ok", "failed"}

\* mutant: the status of a shard result is not looked at
ShardResultOk_Unchecked(t) == TRUE

\* shard_result.ok() of a finished task
ShardResultOk(t) == t.pc = "ok"

\* mutant: the shard stops before the record at its end position
InShard_Strict(next_record_pos, shard) == next_record_pos < shard.end_pos

\* the guard of the read loop
InShard(next_record_pos, shard) == next_record_pos <= shard.end_pos

\* mutant: a failing callback ends the shard task with an error
AfterCallback_Abort(t, cb_ok, rd) ==
    IF cb_ok
    THEN [t EXCEPT !.rd = rd, !.next_record_pos = Pos(rd),
                   !.result = [t.result EXCEPT !.num_records_read = @ + 1]]
    ELSE [t EXCEPT !.pc = "failed", !.overall_ok = FALSE,
                   !.status = Status("CALLBACK", "callback failed", 0, 0)]

\* effect of one record callback on the task: the callback's status is only
\* merged into overall_status, the record is counted and reading goes on
AfterCallback(t, cb_ok, rd) ==
    [t EXCEPT !.rd = rd,
              !.next_record_pos = Pos(rd),
              !.overall_ok = t.overall_ok /\ cb_ok,
              !.result = [t.result EXCEPT !.num_records_read = @ + 1]]

TaskSeek(i) ==
    /\ reader_kind = "Concurrent"
    /\ rs.pc \in {"join", "unwind"}
    /\ i \in DOMAIN tasks
    /\ tasks[i].pc = "launched"
    /\ \E seek_ok \in BOOLEAN :
         IF seek_ok
         THEN LET rd == Seek(stream, build.shards[i].start_pos)
              IN tasks' = [tasks EXCEPT ![i] =
                      [@ EXCEPT !.pc = "reading", !.rd = rd,
                                !.next_record_pos = Pos(rd),
                                !.result = [@ EXCEPT !.first_record_pos = Pos(rd)]]]
         ELSE tasks' = [tasks EXCEPT ![i] =
                      [@ EXCEPT !.pc = "failed", !.status = SeekFailedStatus(i)]]
    /\ UNCHANGED <<stream, options, reader_kind, build, rs, seq, delivered, udfVars, serverVars>>

TaskRead(i) ==
    /\ reader_kind = "Concurrent"
    /\ rs.pc \in {"join", "unwind"}
    /\ i \in DOMAIN tasks
    /\ tasks[i].pc = "reading"
    /\ LET t == tasks[i]
           r == ReadRecord(stream, t.rd)
           done == [t EXCEPT !.pc = "ok",
                             !.result = [@ EXCEPT !.next_shard_first_record_pos =
                                                      t.next_record_pos]]
       IN IF InShard(t.next_record_pos, build.shards[i])
          THEN \E read_ok \in BOOLEAN :
                 IF ~read_ok
                 THEN /\ tasks' = [tasks EXCEPT ![i] =
                             [t EXCEPT !.pc = "failed", !.status = ReadFailedStatus(i)]]
                      /\ UNCHANGED delivered
                 ELSE IF r.found
                 THEN \E cb_ok \in BOOLEAN :
                        /\ tasks' = [tasks EXCEPT ![i] = AfterCallback(t, cb_ok, r.rd)]
                        /\ delivered' = [delivered EXCEPT ![r.rec] = @ + 1]
                 ELSE /\ tasks' = [tasks EXCEPT ![i] = done]
                      /\ UNCHANGED delivered
          ELSE /\ tasks' = [tasks EXCEPT ![i] = done]
               /\ UNCHANGED delivered
    /\ UNCHANGED <<stream, options, reader_kind, build, rs, seq, udfVars, serverVars>>

(***************************************************************************)
(* ConcurrentStreamRecordReader::ReadStreamRecords, the calling thread     *)
(***************************************************************************)
\* mutant: the comparison of the adjacent shard results is inverted
SkippedBetween_Inverted(prev, curr) ==
    prev.next_shard_first_record_pos > curr.first_record_pos

\* the check made on two adjacent shard results
SkippedBetween(prev, curr) ==
    prev.next_shard_first_record_pos < curr.first_record_pos

Launch ==
    /\ reader_kind = "Concurrent"
    /\ rs.pc = "start"
    /\ LET b == BuildShards(stream, options)
       IN /\ build' = b
          /\ IF ~IsOk(b.status) \/ b.shards = <<>>
             THEN /\ rs' = [rs EXCEPT !.pc = "returned", !.status = b.status]
                  /\ UNCHANGED tasks
             ELSE /\ tasks' = [i \in 1..Len(b.shards) |-> LaunchedTask]
                  /\ rs' = [rs EXCEPT !.pc = "join", !.i = 1]
    /\ UNCHANGED <<stream, options, reader_kind, seq, delivered, udfVars, serverVars>>

\* shard_reader_tasks[i].get() and the checks that follow it
Join ==
    /\ reader_kind = "Concurrent"
    /\ rs.pc = "join"
    /\ Finished(tasks[rs.i])
    /\ LET curr == tasks[rs.i]
           last == rs.i = Len(tasks)
           goOn == [rs EXCEPT !.prev = curr.result,
                              !.total_records_read = @ + curr.result.num_records_read,
                              !.i = @ + 1,
                              !.pc = IF last THEN "unwind" ELSE "join",
                              !.status = OkStatus]
       IN IF ~ShardResultOk(curr)
          THEN rs' = [rs EXCEPT !.pc = "unwind", !.status = curr.status]
          ELSE IF rs.i > 1 /\ SkippedBetween(rs.prev, curr.result)
          THEN rs' = [rs EXCEPT !.pc = "unwind",
                        !.status = SkippedRecordsError(
                                      rs.prev.next_shard_first_record_pos,
                                      curr.result.first_record_pos)]
          ELSE rs' = goOn
    /\ UNCHANGED <<stream, options, reader_kind, build, tasks, seq, delivered, udfVars, serverVars>>

\* mutant: the futures do not wait for their tasks when they are destroyed
FuturesDestroyed_Detached(shard_reader_tasks) == TRUE

\* ~std::vector<std::future<...>> on futures obtained from std::async: each
\* destructor blocks until its task has finished
FuturesDestroyed(shard_reader_tasks) ==
    \A i \in DOMAIN shard_reader_tasks : Finished(shard_reader_tasks[i])

\* the return: the futures of std::async are destroyed, which waits for
\* every task that is still running
Return ==
    /\ reader_kind = "Concurrent"
    /\ rs.pc = "unwind"
    /\ FuturesDestroyed(tasks)
    /\ rs' = [rs EXCEPT !.pc = "returned"]
    /\ UNCHANGED <<stream, options, reader_kind, build, tasks, seq, delivered, udfVars, serverVars>>

(***************************************************************************)
(* RiegeliStreamReader::ReadStreamRecords                                  *)
(***************************************************************************)
SeqAfterCallback(s, cb_ok, rd) ==
    [s EXCEPT !.rd = rd, !.overall_ok = s.overall_ok /\ cb_ok,
              !.num_records_read = @ + 1]

SeqRead ==
    /\ reader_kind = "Riegeli"
    /\ seq.pc = "reading"
    /\ LET r == ReadRecord(stream, seq.rd)
       IN \E read_ok \in BOOLEAN :
            IF ~read_ok
            THEN /\ seq' = [seq EXCEPT !.pc = "returned", !.status = ReadFailedStatus(0)]
                 /\ UNCHANGED delivered
            ELSE IF r.found
            THEN \E cb_ok \in BOOLEAN :
                   /\ seq' = SeqAfterCallback(seq, cb_ok, r.rd)
                   /\ delivered' = [delivered EXCEPT ![r.rec] = @ + 1]
            ELSE /\ seq' = [seq EXCEPT !.pc = "returned", !.status = OkStatus]
                 /\ UNCHANGED delivered
    /\ UNCHANGED <<stream, options, reader_kind, build, tasks, rs, udfVars, serverVars>>

(***************************************************************************)
(* UdfClientImpl (components/udf): messages and their JSON form            *)
(***************************************************************************)
\* constexpr int kUdfInterfaceVersion = 1
kUdfInterfaceVersion == 1
\* constexpr absl::Duration kCodeUpdateTimeout = absl::Seconds(1), in seconds
kCodeUpdateTimeout == 1
\* ABSL_FLAG(absl::Duration, udf_timeout, absl::Minutes(1), ...), in seconds
FLAGS_udf_timeout == 60

\* the values of a google.protobuf.Value field; "bad" stands for a value
\* that cannot be printed as JSON
Values == {"v", "bad"}
TagLists == {<<>>, <<"custom", "keys">>}
UDFArguments == [tags : TagLists, data : Values]
UDFExecutionMetadatas == [request_metadata : Values, udf_interface_version : {0}]

RECURSIVE SeqsUpTo(_, _)
SeqsUpTo(S, n) ==
    IF n = 0 THEN {<<>>}
    ELSE LET shorter == SeqsUpTo(S, n - 1)
         IN shorter \cup {Append(s, x) : s \in {q \in shorter : Len(q) = n - 1}, x \in S}

JsonError == Status("INVALID_ARGUMENT", "cannot print the message as JSON", 0, 0)

\* google::protobuf::json::MessageToJsonString on a Value
ValueToJson(v) ==
    IF v = "bad" THEN [status |-> JsonError, json |-> [type |-> "none"]]
    ELSE [status |-> OkStatus, json |-> [type |-> "Value", value |-> v]]

\* MessageToJsonString on a UDFArgument
ArgumentToJson(arg) ==
    IF arg.data = "bad" THEN [status |-> JsonError, json |-> [type |-> "none"]]
    ELSE [status |-> OkStatus,
          json |-> [type |-> "UDFArgument", tags |-> arg.tags, data |-> arg.data]]

\* MessageToJsonString on a UDFExecutionMetadata
MetadataToJson(m) ==
    IF m.request_metadata = "bad"
    THEN [status |-> JsonError, json |-> [type |-> "none"]]
    ELSE [status |-> OkStatus,
          json |-> [type |-> "UDFExecutionMetadata",
                    requestMetadata |-> m.request_metadata,
                    udfInterfaceVersion |-> m.udf_interface_version]]

\* mutant: every argument is printed whole, with its tags
PrintArgument_Whole(arg) == ArgumentToJson(arg)

\* the message printed for one argument: its data when it has no tags,
\* else the argument
PrintArgument(arg) ==
    IF arg.tags = <<>> THEN ValueToJson(arg.data) ELSE ArgumentToJson(arg)

\* execution_metadata.set_udf_interface_version(kUdfInterfaceVersion)
SetInterfaceVersion(m) == [m EXCEPT !.udf_interface_version = kUdfInterfaceVersion]

\* the loop over the arguments: the strings so far, or the first error
RECURSIVE PrintArguments(_, _, _)
PrintArguments(arguments, i, string_args) ==
    IF i > Len(arguments) THEN [status |-> OkStatus, string_args |-> string_args]
    ELSE LET j == PrintArgument(arguments[i])
         IN IF ~IsOk(j.status) THEN [status |-> j.status, string_args |-> <<>>]
            ELSE PrintArguments(arguments, i + 1, Append(string_args, j.json))

\* ExecuteCode(metadata, arguments) up to the call of ExecuteCode(string_args)
BuildStringArgs(execution_metadata, arguments) ==
    LET jm == MetadataToJson(SetInterfaceVersion(execution_metadata))
    IN IF ~IsOk(jm.status) THEN [status |-> jm.status, string_args |-> <<>>]
       ELSE PrintArguments(arguments, 1, <<jm.json>>)

(***************************************************************************)
(* UdfClientImpl: code objects, Roma, SetCodeObject, ExecuteCode    *)
(***************************************************************************)
\* code configs: version 1 of the code is "A" and defines handlerA, version 2
\* is "B" and defines handlerB; each at every logical commit time
CodeConfigs ==
    {cc \in [js : {"A", "B"}, udf_handler_name : {"handlerA", "handlerB"},
             logical_commit_time : 0..MaxLct, version : {1, 2}] :
        /\ cc.udf_handler_name = "handler" \o cc.js
        /\ cc.version = (IF cc.js = "A" THEN 1 ELSE 2)}

NoCode == [js |-> "", version_num |-> 0]

BuildCodeObject(js, version) == [js |-> js, version_num |-> version]

BuildInvocationRequest(keys) ==
    [version_num |-> udf.version, handler_name |-> udf.handler_name, input |-> keys]

ExecuteTimedOut == Status("INTERNAL", "Timed out waiting for UDF result.", 0, 0)
SetCodeTimedOut == Status("INTERNAL", "Timed out setting UDF code object.", 0, 0)
\* the statuses Roma reports
LoadDispatchError == Status("ROMA", "LoadCodeObj failed", 0, 0)
LoadResponseError == Status("ROMA", "load response error", 0, 0)
ExecuteDispatchError == Status("ROMA", "Execute failed", 0, 0)
ExecuteResponseError == Status("ROMA", "execute response error", 0, 0)

UdfFields(cc) == [handler_name |-> cc.udf_handler_name,
                  logical_commit_time |-> cc.logical_commit_time,
                  version |-> cc.version]

InitialUdf == [handler_name |-> "", logical_commit_time |-> -1, version |-> 1]

NoConfig == [js |-> "", udf_handler_name |-> "", logical_commit_time |-> -1,
             version |-> 0]

IdleSetCall == [pc |-> "idle", code_config |-> NoConfig, before |-> InitialUdf,
                load_called |-> FALSE, load_status |-> OkStatus,
                timeout |-> 0, wait_timed_out |-> FALSE,
                notified |-> FALSE, response_status |-> OkStatus,
                status |-> OkStatus]

NoRequest == [version_num |-> 0, handler_name |-> "", input |-> <<>>]

NoMetadata == [request_metadata |-> "v", udf_interface_version |-> 0]

IdleExecCall == [pc |-> "idle", metadata |-> NoMetadata, arguments |-> <<>>,
                 request |-> NoRequest, execute_called |-> FALSE,
                 execute_status |-> OkStatus,
                 timeout |-> 0, wait_timed_out |-> FALSE,
                 notified |-> FALSE, response_status |-> OkStatus, result |-> "",
                 ret |-> [status |-> OkStatus, value |-> ""]]

\* loads: the code objects being loaded, oldest first, each with whether the
\* call that sent it still waits for it; executing: the invocation of the
\* call in progress is running; abandoned: the number of invocations that
\* are running after their call has timed out
InitialRoma == [loaded |-> NoCode, loads |-> <<>>, executing |-> FALSE,
                abandoned |-> 0]

\* mutant: every code object is sent to Roma, whatever its logical commit time
LctTooSmall_Never(current, new) == FALSE

\* mutant: a code object with the same logical commit time is accepted
LctTooSmall_Strict(current, new) == current > new

\* the gate of SetCodeObject: logical_commit_time_ >= code_config.logical_commit_time
LctTooSmall(current, new) == current >= new

\* mutant: the notification is not looked at after the wait
HasBeenNotified_Always(call) == TRUE

\* mutant: the notification is never seen
HasBeenNotified_Never(call) == FALSE

\* notification->HasBeenNotified()
HasBeenNotified(call) == call.notified

\* the strings a handler can return
RomaOutputs == {"out1", "out2"}

\* mutant: the notification and status are members shared by all calls
MarkOrphan_Shared(pending) == pending

\* the call returns: the notification and status of its pending load are
\* now held by the callback alone
MarkOrphan(pending) == [i \in DOMAIN pending |-> [pending[i] EXCEPT !.current = FALSE]]

\* SetCodeObject up to the wait for the notification
SetCodeObject_Call(code_config) ==
    /\ set_call.pc \in {"idle", "done"}
    /\ LET call == [IdleSetCall EXCEPT !.code_config = code_config, !.before = udf]
       IN IF LctTooSmall(udf.logical_commit_time, code_config.logical_commit_time)
          THEN /\ set_call' = [call EXCEPT !.pc = "done", !.status = OkStatus]
               /\ UNCHANGED roma
          ELSE \E load_ok \in BOOLEAN :
                 IF load_ok
                 THEN /\ Len(roma.loads) < MaxPending
                      /\ roma' = [roma EXCEPT !.loads = Append(@,
                            [code |-> BuildCodeObject(code_config.js, code_config.version),
                             current |-> TRUE])]
                      /\ set_call' = [call EXCEPT !.pc = "waiting", !.load_called = TRUE,
                                                  !.timeout = kCodeUpdateTimeout]
                 ELSE /\ set_call' = [call EXCEPT !.pc = "done", !.load_called = TRUE,
                                                  !.load_status = LoadDispatchError,
                                                  !.status = LoadDispatchError]
                      /\ UNCHANGED roma
    /\ UNCHANGED <<udf, exec_call, readerVars, serverVars>>

\* Roma finishes the oldest load and runs its callback
Roma_LoadDone ==
    /\ roma.loads # <<>>
    /\ LET h == Head(roma.loads)
       IN \E resp_ok \in BOOLEAN :
            /\ roma' = [roma EXCEPT !.loads = Tail(@),
                                    !.loaded = IF resp_ok THEN h.code ELSE @]
            /\ IF h.current
               THEN set_call' = [set_call EXCEPT
                        !.notified = TRUE,
                        !.response_status =
                            IF resp_ok THEN @ ELSE LoadResponseError]
               ELSE UNCHANGED set_call
    /\ UNCHANGED <<udf, exec_call, readerVars, serverVars>>

\* notification->WaitForNotificationWithTimeout(kCodeUpdateTimeout) returns:
\* at once when notified, else when the timeout has passed
SetCodeObject_Wait ==
    /\ set_call.pc = "waiting"
    /\ set_call' = [set_call EXCEPT !.pc = "check",
                                    !.wait_timed_out = ~set_call.notified]
    /\ UNCHANGED <<udf, roma, exec_call, readerVars, serverVars>>

\* mutant: the members are assigned before the response status is looked at
MembersAfterSet_BeforeCheck(current, code_config, status) ==
    IF status = SetCodeTimedOut THEN current ELSE UdfFields(code_config)

\* handler_name_, logical_commit_time_ and version_ when SetCodeObject
\* returns status: they are assigned only after every error return
MembersAfterSet(current, code_config, status) ==
    IF IsOk(status) THEN UdfFields(code_config) ELSE current

\* SetCodeObject after the wait
SetCodeObject_Finish ==
    /\ set_call.pc = "check"
    /\ LET status == IF ~HasBeenNotified(set_call) THEN SetCodeTimedOut
                     ELSE IF ~IsOk(set_call.response_status)
                     THEN set_call.response_status
                     ELSE OkStatus
       IN /\ set_call' = [set_call EXCEPT !.pc = "done", !.status = status]
          /\ udf' = MembersAfterSet(udf, set_call.code_config, status)
          /\ roma' = IF ~HasBeenNotified(set_call)
                     THEN [roma EXCEPT !.loads = MarkOrphan(@)]
                     ELSE roma
    /\ UNCHANGED <<exec_call, readerVars, serverVars>>

\* ExecuteCode(metadata, arguments) and ExecuteCode(keys) up to the wait
ExecuteCode_Call(execution_metadata, arguments) ==
    /\ exec_call.pc \in {"idle", "done"}
    /\ LET call == [IdleExecCall EXCEPT !.metadata = execution_metadata,
                                        !.arguments = arguments]
           built == BuildStringArgs(execution_metadata, arguments)
           request == BuildInvocationRequest(built.string_args)
       IN IF ~IsOk(built.status)
          THEN /\ exec_call' = [call EXCEPT !.pc = "done",
                                  !.ret = [status |-> built.status, value |-> ""]]
               /\ UNCHANGED roma
          ELSE \E execute_ok \in BOOLEAN :
                 IF execute_ok
                 THEN /\ roma' = [roma EXCEPT !.executing = TRUE]
                      /\ exec_call' = [call EXCEPT !.pc = "waiting",
                                         !.request = request,
                                         !.execute_called = TRUE,
                                         !.timeout = FLAGS_udf_timeout]
                 ELSE /\ exec_call' = [call EXCEPT !.pc = "done",
                                         !.request = request,
                                         !.execute_called = TRUE,
                                         !.execute_status = ExecuteDispatchError,
                                         !.ret = [status |-> ExecuteDispatchError,
                                                  value |-> ""]]
                      /\ UNCHANGED roma
    /\ UNCHANGED <<udf, set_call, readerVars, serverVars>>

\* Roma finishes one invocation and runs its callback
Roma_ExecuteDone ==
    /\ roma.executing
    /\ \E resp_ok \in BOOLEAN, resp \in RomaOutputs :
         /\ resp_ok \/ resp = "out1"
         /\ roma' = [roma EXCEPT !.executing = FALSE]
         /\ exec_call' = [exec_call EXCEPT
                !.notified = TRUE,
                !.result = IF resp_ok THEN resp ELSE @,
                !.response_status = IF resp_ok THEN @ ELSE ExecuteResponseError]
    /\ UNCHANGED <<udf, set_call, readerVars, serverVars>>

\* Roma finishes an invocation whose call has timed out: its callback
\* writes to the notification, status and result that only it still holds
Roma_AbandonedExecuteDone ==
    /\ roma.abandoned > 0
    /\ roma' = [roma EXCEPT !.abandoned = @ - 1]
    /\ UNCHANGED <<udf, set_call, exec_call, readerVars, serverVars>>

\* notification->WaitForNotificationWithTimeout(udf_timeout_) returns
ExecuteCode_Wait ==
    /\ exec_call.pc = "waiting"
    /\ exec_call' = [exec_call EXCEPT !.pc = "check",
                                      !.wait_timed_out = ~exec_call.notified]
    /\ UNCHANGED <<udf, roma, set_call, readerVars, serverVars>>

\* ExecuteCode(keys) after the wait
ExecuteCode_Finish ==
    /\ exec_call.pc = "check"
    /\ IF ~HasBeenNotified(exec_call)
       THEN /\ exec_call' = [exec_call EXCEPT !.pc = "done",
                               !.ret = [status |-> ExecuteTimedOut, value |-> ""]]
            /\ roma.abandoned < MaxPending
            /\ roma' = [roma EXCEPT !.executing = FALSE, !.abandoned = @ + 1]
       ELSE IF ~IsOk(exec_call.response_status)
       THEN /\ exec_call' = [exec_call EXCEPT !.pc = "done",
                               !.ret = [status |-> exec_call.response_status,
                                        value |-> ""]]
            /\ UNCHANGED roma
       ELSE /\ exec_call' = [exec_call EXCEPT !.pc = "done",
                               !.ret = [status |-> OkStatus,
                                        value |-> exec_call.result]]
            /\ UNCHANGED roma
    /\ UNCHANGED <<udf, set_call, readerVars, serverVars>>

(***************************************************************************)
(* GetValuesHookImpl: the getValues hook that Roma exposes to the UDF       *)
(***************************************************************************)
\* absl::StatusCode::kInvalidArgument and kInternal as integers
kInvalidArgument == 3
kInternal == 13

\* constexpr char kOkStatusMessage[] = "ok"
kOkStatusMessage == "ok"

Keys == {"k1", "k2"}

\* FunctionBindingIoProto inputs: a list of strings, or another input
IoInputs ==
    {[kind |-> "input_list_of_string", data |-> d] : d \in SeqsUpTo(Keys, MaxKeys)}
        \cup {[kind |-> "input_string", data |-> <<>>],
              [kind |-> "not_set", data |-> <<>>]}

\* SingleLookupResult: a value or a status
SingleLookupResults ==
    {[kind |-> "value", value |-> "v1"],
     [kind |-> "status", status |-> [code |-> 5, message |-> "Key not found"]],
     [kind |-> "status", status |-> [code |-> kInternal, message |-> "Data lookup failed"]]}

NoLookupResult == [ok |-> FALSE, status |-> [code |-> 0, message |-> ""],
                   kv_pairs |-> [k \in {} |-> 0]]

\* what lookup_->GetKeyValues(keys) can return: an error, or a response with
\* a result for each key
LookupResults(keys) ==
    {[ok |-> FALSE, status |-> [code |-> kInternal, message |-> "lookup failed"],
      kv_pairs |-> [k \in {} |-> 0]]}
        \cup {[ok |-> TRUE, status |-> [code |-> 0, message |-> ""], kv_pairs |-> kv] :
                kv \in [keys -> SingleLookupResults]}

\* Status GetStatus(int code, std::string_view message)
GetStatus(code, message) == [code |-> code, message |-> message]

\* the serialized BinaryGetValuesResponse written to io.output_bytes
SetBinaryGetValuesAsBytes(binary_response) ==
    [kind |-> "output_bytes", message |-> binary_response]

\* mutant: the binary hook reports every error as Unknown
SetStatusAsBytes_Unknown(code, message) ==
    SetBinaryGetValuesAsBytes([kv_pairs |-> [k \in {} |-> 0],
                               status |-> GetStatus(2, message)])

SetStatusAsBytes(code, message) ==
    SetBinaryGetValuesAsBytes([kv_pairs |-> [k \in {} |-> 0],
                               status |-> GetStatus(code, message)])

\* the Value of BinaryGetValuesResponse built from one lookup result
BinaryValue(v) ==
    IF v.kind = "status"
    THEN [status |-> GetStatus(v.status.code, v.status.message)]
    ELSE [data |-> v.value]

\* mutant: a key that failed makes the whole response a status
SetOutputAsBytes_FailOnKeyError(response) ==
    IF \E k \in DOMAIN response.kv_pairs : response.kv_pairs[k].kind = "status"
    THEN SetStatusAsBytes(kInternal, "lookup failed")
    ELSE SetBinaryGetValuesAsBytes(
            [kv_pairs |-> [k \in DOMAIN response.kv_pairs |->
                              BinaryValue(response.kv_pairs[k])],
             status |-> GetStatus(0, kOkStatusMessage)])

SetOutputAsBytes(response) ==
    SetBinaryGetValuesAsBytes(
        [kv_pairs |-> [k \in DOMAIN response.kv_pairs |->
                          BinaryValue(response.kv_pairs[k])],
         status |-> GetStatus(0, kOkStatusMessage)])

\* the JSON object {"code": .., "message": ..} written to io.output_string
SetStatusAsString(code, message) ==
    [kind |-> "output_string", json |-> [code |-> code, message |-> message]]

\* MessageToJsonString on a SingleLookupResult
SingleLookupResultToJson(v) ==
    IF v.kind = "status"
    THEN [status |-> [code |-> v.status.code, message |-> v.status.message]]
    ELSE [value |-> v.value]

\* MessageToJsonString on an InternalLookupResponse, then nlohmann::json::parse:
\* an empty map is not printed
LookupResponseToJson(response) ==
    IF DOMAIN response.kv_pairs = {} THEN [f \in {} |-> 0]
    ELSE [kvPairs |-> [k \in DOMAIN response.kv_pairs |->
                          SingleLookupResultToJson(response.kv_pairs[k])]]

SetOutputAsString(response) ==
    [kind |-> "output_string",
     json |-> ("status" :> [code |-> 0, message |-> kOkStatusMessage])
                 @@ LookupResponseToJson(response)]

\* mutant: a status is always written as a string
SetStatus_AsString(output_type, code, message) == SetStatusAsString(code, message)

SetStatus(output_type, code, message) ==
    IF output_type = "kString" THEN SetStatusAsString(code, message)
    ELSE SetStatusAsBytes(code, message)

SetOutput(output_type, response) ==
    IF output_type = "kString" THEN SetOutputAsString(response)
    ELSE SetOutputAsBytes(response)

\* mutant: the input is not looked at
HasInputListOfString_Unchecked(io_input) == TRUE

\* io.has_input_list_of_string()
HasInputListOfString(io_input) == io_input.kind = "input_list_of_string"

\* mutant: only the first string of the list is looked up
InputKeys_First(io_input) ==
    IF io_input.data = <<>> THEN {} ELSE {io_input.data[1]}

\* the keys of the input list
InputKeys(io_input) == {io_input.data[i] : i \in DOMAIN io_input.data}

NoHookCall == [invoked |-> FALSE, input |-> [kind |-> "not_set", data |-> <<>>],
               initialized |-> FALSE, lookup_called |-> FALSE,
               lookup_used |-> 0, lookup_keys |-> {},
               lookup_result |-> NoLookupResult,
               output |-> [kind |-> "not_set"]]

\* GetValuesHookImpl::operator(): the invocation and the output it writes,
\* for the result that the lookup gives when it is called
GetValuesHookCall(h, io_input, result) ==
    LET call == [NoHookCall EXCEPT !.invoked = TRUE, !.input = io_input,
                                   !.initialized = h.lookup]
    IN IF ~h.lookup
       THEN [call EXCEPT !.output = SetStatus(h.output_type, kInternal,
                                      "getValues has not been initialized yet")]
       ELSE IF ~HasInputListOfString(io_input)
       THEN [call EXCEPT !.output = SetStatus(h.output_type, kInvalidArgument,
                                      "getValues input must be list of strings")]
       ELSE IF ~result.ok
       THEN [call EXCEPT !.lookup_called = TRUE, !.lookup_result = result,
                         !.lookup_used = h.lookup_id,
                         !.lookup_keys = InputKeys(io_input),
                         !.output = SetStatus(h.output_type, result.status.code,
                                              result.status.message)]
       ELSE [call EXCEPT !.lookup_called = TRUE, !.lookup_result = result,
                         !.lookup_used = h.lookup_id,
                         !.lookup_keys = InputKeys(io_input),
                         !.output = SetOutput(h.output_type, result)]

\* mutant: FinishInit replaces a lookup that is already set
SetLookup_Replace(h, lookup) == [h EXCEPT !.lookup = TRUE, !.lookup_id = lookup]

\* if (lookup_ == nullptr) lookup_ = std::move(lookup); lookup_id names the
\* Lookup instance that lookup_ points to, 0 for nullptr
SetLookup(h, lookup) ==
    IF ~h.lookup THEN [h EXCEPT !.lookup = TRUE, !.lookup_id = lookup] ELSE h

\* FinishInit(lookup): sets lookup_ when it is not set yet
FinishInit(lookup) ==
    /\ hook' = SetLookup(hook, lookup)
    /\ UNCHANGED <<readerVars, udfVars, lateVars, cache, sharded, v1, v2>>

\* the UDF calls getValues
Hook_Invoke(io_input) ==
    /\ \E result \in LookupResults(InputKeys(io_input)) :
         /\ (~hook.lookup \/ ~HasInputListOfString(io_input)) =>
               ~result.ok
         /\ hook' = [hook EXCEPT !.call = GetValuesHookCall(hook, io_input, result)]
    /\ UNCHANGED <<readerVars, udfVars, lateVars, cache, sharded, v1, v2>>

HookIdle == hook = [output_type |-> "kString", lookup |-> FALSE, lookup_id |-> 0,
                    call |-> NoHookCall]

(***************************************************************************)
(* GetValuesV2Handler and its three transports, with the clients of         *)
(* get_values_v2_handler_test.cc                                            *)
(***************************************************************************)
EmptyObject == [f \in {} |-> 0]

GrpcStatus(code, message) == [code |-> code, message |-> message]
GrpcOk == GrpcStatus("OK", "")

\* the partitions of the requests: partition 0 without arguments, partition 9
\* with the argument "ECHO"
RequestPartitions == {[id |-> 0, arguments |-> <<>>],
                      [id |-> 9, arguments |-> <<"ECHO">>]}

\* v2::GetValuesRequest
GetValuesRequests ==
    [metadata : {"example.com"}, partitions : SeqsUpTo(RequestPartitions, MaxPartitions)]

\* the JSON of a request partition: fields with the default value are absent
RequestPartitionToJson(p) ==
    (IF p.id = 0 THEN EmptyObject ELSE [id |-> p.id])
        @@ (IF p.arguments = <<>> THEN EmptyObject
            ELSE [arguments |-> [i \in DOMAIN p.arguments |-> [data |-> p.arguments[i]]]])

\* the JSON request body of a request
RequestToJson(r) ==
    [kind |-> "json", metadata |-> [hostname |-> r.metadata]]
        @@ (IF r.partitions = <<>> THEN EmptyObject
            ELSE [partitions |-> [i \in DOMAIN r.partitions |->
                                     RequestPartitionToJson(r.partitions[i])]])

\* the request bodies a client sends: the JSON of a request, or no JSON at all
RequestBodies == {RequestToJson(r) : r \in GetValuesRequests} \cup {[kind |-> "malformed"]}

JsonToRequestPartition(j) ==
    [id |-> IF "id" \in DOMAIN j THEN j.id ELSE 0,
     arguments |-> IF "arguments" \in DOMAIN j
                   THEN [i \in DOMAIN j.arguments |-> j.arguments[i].data]
                   ELSE <<>>]

\* JsonStringToMessage(request, &request_proto)
JsonToRequest(body) ==
    IF body.kind # "json"
    THEN [status |-> GrpcStatus("INVALID_ARGUMENT", "cannot parse the request"),
          request |-> [metadata |-> "", partitions |-> <<>>]]
    ELSE [status |-> GrpcOk,
          request |-> [metadata |-> body.metadata.hostname,
                       partitions |-> IF "partitions" \in DOMAIN body
                                      THEN [i \in DOMAIN body.partitions |->
                                               JsonToRequestPartition(body.partitions[i])]
                                      ELSE <<>>]]

\* what the UDF client returns for an argument list (MockUdfClient)
UdfOutcomes == {[ok |-> TRUE, value |-> "ECHO",
                 status |-> [code |-> 0, message |-> ""]],
                [ok |-> FALSE, value |-> "",
                 status |-> [code |-> 13, message |-> "UDF execution error"]]}

UdfBehaviours == [{p.arguments : p \in RequestPartitions} -> UdfOutcomes]

\* mutant: the output of the UDF is emitted next to the status
ProcessOnePartition_Both(behaviour, req_metadata, req_partition) ==
    LET out == behaviour[req_partition.arguments]
    IN IF out.ok
       THEN [id |-> req_partition.id, string_output |-> out.value]
       ELSE [id |-> req_partition.id, string_output |-> "",
             status |-> [code |-> out.status.code, message |-> out.status.message]]

\* the response partition of one request partition: its id with the output
\* of the UDF or with the status of its failure
ProcessOnePartition(behaviour, req_metadata, req_partition) ==
    LET out == behaviour[req_partition.arguments]
    IN IF out.ok
       THEN [id |-> req_partition.id, string_output |-> out.value]
       ELSE [id |-> req_partition.id,
             status |-> [code |-> out.status.code, message |-> out.status.message]]

\* the call of udf_client_.ExecuteCode made for a partition
UdfCallOf(req_metadata, req_partition) ==
    [request_metadata |-> req_metadata, arguments |-> req_partition.arguments]

\* mutant: a partition whose UDF failed fails the request
GetValues_FailRequest(behaviour, request) ==
    IF \E i \in DOMAIN request.partitions : ~behaviour[request.partitions[i].arguments].ok
    THEN [status |-> GrpcStatus("INTERNAL", "UDF execution error"),
          response |-> EmptyObject,
          calls |-> [i \in DOMAIN request.partitions |->
                        UdfCallOf(request.metadata, request.partitions[i])]]
    ELSE [status |-> GrpcOk,
          response |-> [partitions |-> [i \in DOMAIN request.partitions |->
                           ProcessOnePartition(behaviour, request.metadata,
                                               request.partitions[i])]],
          calls |-> [i \in DOMAIN request.partitions |->
                        UdfCallOf(request.metadata, request.partitions[i])]]

\* GetValuesV2Handler::GetValues(request, response)
GetValues(behaviour, request) ==
    IF request.partitions = <<>>
    THEN [status |-> GrpcStatus("INTERNAL", "At least 1 partition is required"),
          response |-> EmptyObject, calls |-> <<>>]
    ELSE [status |-> GrpcOk,
          response |->
             IF Len(request.partitions) = 1
             THEN [single_partition |->
                      ProcessOnePartition(behaviour, request.metadata,
                                          request.partitions[1])]
             ELSE [partitions |-> [i \in DOMAIN request.partitions |->
                      ProcessOnePartition(behaviour, request.metadata,
                                          request.partitions[i])]],
          calls |-> [i \in DOMAIN request.partitions |->
                        UdfCallOf(request.metadata, request.partitions[i])]]

\* the JSON of a response partition: fields with the default value are absent
ResponsePartitionToJson(p) ==
    (IF p.id = 0 THEN EmptyObject ELSE [id |-> p.id])
        @@ (IF "string_output" \in DOMAIN p
            THEN [stringOutput |-> p.string_output] ELSE EmptyObject)
        @@ (IF "status" \in DOMAIN p THEN [status |-> p.status] ELSE EmptyObject)

\* MessageToJsonString(response_proto, response->mutable_data())
ResponseToJson(r) ==
    [kind |-> "json"]
        @@ (IF "single_partition" \in DOMAIN r
            THEN [singlePartition |-> ResponsePartitionToJson(r.single_partition)]
            ELSE EmptyObject)
        @@ (IF "partitions" \in DOMAIN r
            THEN [partitions |-> [i \in DOMAIN r.partitions |->
                                     ResponsePartitionToJson(r.partitions[i])]]
            ELSE EmptyObject)

NoData == [kind |-> "empty"]

\* GetValuesV2Handler::GetValuesHttp(request, response): the JSON body is
\* parsed, handled by GetValues and the response printed as JSON
GetValuesHttp(behaviour, raw_body) ==
    LET parsed == JsonToRequest(raw_body)
        handled == GetValues(behaviour, parsed.request)
    IN IF parsed.status.code # "OK"
       THEN [status |-> parsed.status, data |-> NoData, calls |-> <<>>]
       ELSE IF handled.status.code # "OK"
       THEN [status |-> handled.status, data |-> NoData, calls |-> handled.calls]
       ELSE [status |-> GrpcOk, data |-> ResponseToJson(handled.response),
             calls |-> handled.calls]

\* quiche::BinaryHttpRequest::Serialize / BinaryHttpResponse::Serialize
SerializeBhttpRequest(body) == [bhttp |-> "request", body |-> body]
SerializeBhttpResponse(status_code, body) ==
    [bhttp |-> "response", status_code |-> status_code, body |-> body]

\* quiche::BinaryHttpRequest::Create / BinaryHttpResponse::Create
IsBhttp(data, what) == "bhttp" \in DOMAIN data /\ data.bhttp = what

\* the response code mapping of the BHTTP layer
BhttpStatusCode(status) ==
    CASE status.code = "OK" -> 200
      [] status.code = "INVALID_ARGUMENT" -> 400
      [] status.code = "PERMISSION_DENIED" -> 403
      [] status.code = "NOT_FOUND" -> 404
      [] OTHER -> 500

\* mutant: an application error fails the outer call
BinaryHttpGetValues_FailOuter(behaviour, raw_body) ==
    IF ~IsBhttp(raw_body, "request")
    THEN [status |-> GrpcOk, data |-> SerializeBhttpResponse(400, NoData),
          calls |-> <<>>, parsed |-> FALSE]
    ELSE LET inner == GetValuesHttp(behaviour, raw_body.body)
         IN [status |-> inner.status,
             data |-> SerializeBhttpResponse(BhttpStatusCode(inner.status), inner.data),
             calls |-> inner.calls, parsed |-> TRUE]

\* GetValuesV2Handler::BinaryHttpGetValues(request, response): the BHTTP
\* request is decapsulated, its body handled by GetValuesHttp and the result
\* encapsulated as a BHTTP response; the outer call succeeds
BinaryHttpGetValues(behaviour, raw_body) ==
    IF ~IsBhttp(raw_body, "request")
    THEN [status |-> GrpcOk, data |-> SerializeBhttpResponse(400, NoData),
          calls |-> <<>>, parsed |-> FALSE]
    ELSE LET inner == GetValuesHttp(behaviour, raw_body.body)
         IN [status |-> GrpcOk,
             data |-> SerializeBhttpResponse(BhttpStatusCode(inner.status), inner.data),
             calls |-> inner.calls, parsed |-> TRUE]

\* the HPKE test key pair and the suite of the OHTTP requests
kTestKeyId == 64
kKEMParameter == 32
kKDFParameter == 1
kAEADParameter == 1

\* the HPKE contexts a client can set up (its ephemeral key)
Contexts == 1..MaxContexts

\* ObliviousHttpClient::CreateObliviousHttpRequest + EncapsulateAndSerialize:
\* the plaintext sealed to the key key_id under the context of this request
EncapsulateAndSerialize(plaintext, key_id, context) ==
    [ohttp |-> "request", key_id |-> key_id, kem |-> kKEMParameter,
     kdf |-> kKDFParameter, aead |-> kAEADParameter, enc |-> context,
     sealed |-> plaintext]

\* ObliviousHttpClient::DecryptObliviousHttpResponse(data, context)
DecryptObliviousHttpResponse(data, context) ==
    IF "ohttp" \in DOMAIN data /\ data.ohttp = "response" /\ data.context = context
    THEN [ok |-> TRUE, plaintext |-> data.sealed]
    ELSE [ok |-> FALSE, plaintext |-> NoData]

\* the private keys of the key fetcher manager, by key id
HasPrivateKey(key_id) == key_id = kTestKeyId

\* the gateway's decryption: the private key of the request's key id opens
\* the request and yields the context of this request
DecryptObliviousHttpRequest(data) ==
    IF "ohttp" \in DOMAIN data /\ data.ohttp = "request" /\ HasPrivateKey(data.key_id)
       /\ data.kem = kKEMParameter /\ data.kdf = kKDFParameter
       /\ data.aead = kAEADParameter
    THEN [ok |-> TRUE, plaintext |-> data.sealed, context |-> data.enc]
    ELSE [ok |-> FALSE, plaintext |-> NoData, context |-> 0]

\* the gateway's encryption of a response under the context of the request
CreateObliviousHttpResponse(plaintext, context) ==
    [ohttp |-> "response", context |-> context, sealed |-> plaintext]

\* GetValuesV2Handler::ObliviousGetValues(request, response)
ObliviousGetValues(behaviour, raw_body) ==
    LET decrypted == DecryptObliviousHttpRequest(raw_body)
        inner == BinaryHttpGetValues(behaviour, decrypted.plaintext)
    IN IF ~decrypted.ok
       THEN [status |-> GrpcStatus("PERMISSION_DENIED", "cannot decrypt the request"),
             data |-> NoData, calls |-> <<>>, parsed |-> FALSE,
             decrypted |-> NoData]
       ELSE [status |-> inner.status,
             data |-> CreateObliviousHttpResponse(inner.data, decrypted.context),
             calls |-> inner.calls, parsed |-> inner.parsed,
             decrypted |-> decrypted.plaintext]

\* JsonStringToMessage(response.data(), &response_proto) of the tests
JsonToResponsePartition(j) ==
    [id |-> IF "id" \in DOMAIN j THEN j.id ELSE 0]
        @@ (IF "stringOutput" \in DOMAIN j
            THEN [string_output |-> j.stringOutput] ELSE EmptyObject)
        @@ (IF "status" \in DOMAIN j THEN [status |-> j.status] ELSE EmptyObject)

JsonToResponse(data) ==
    (IF "singlePartition" \in DOMAIN data
     THEN [single_partition |-> JsonToResponsePartition(data.singlePartition)]
     ELSE EmptyObject)
        @@ (IF "partitions" \in DOMAIN data
            THEN [partitions |-> [i \in DOMAIN data.partitions |->
                                     JsonToResponsePartition(data.partitions[i])]]
            ELSE EmptyObject)

\* PlainRequest::Build: the body as it is
PlainRequest(plain_request_body) == plain_request_body

\* BHTTPRequest: the body in a serialized BHTTP request
BHTTPRequest(plain_request) == SerializeBhttpRequest(plain_request)

\* BHTTPResponse::ResponseCode
BHTTPResponse_ResponseCode(response) ==
    IF IsBhttp(response, "response") THEN response.status_code ELSE 0

\* mutant: the BHTTP response is handed on as it came
BHTTPResponse_Unwrap_Raw(response) == response

\* BHTTPResponse::Unwrap: the body of the BHTTP response
BHTTPResponse_Unwrap(response) ==
    IF IsBhttp(response, "response") THEN response.body ELSE [kind |-> "unreadable"]

\* OHTTPRequest::Build: the BHTTP request sealed to the test key; the
\* context is kept for the response
OHTTPRequest(bhttp_request, context) ==
    EncapsulateAndSerialize(bhttp_request, kTestKeyId, context)

\* mutant: the response is opened with another context than the request's
OHTTPResponseUnwrapper_Unwrap_Other(response, context) ==
    DecryptObliviousHttpResponse(response, context + 1).plaintext

\* OHTTPResponseUnwrapper::Unwrap: the response opened with the kept context
OHTTPResponseUnwrapper_Unwrap(response, context) ==
    DecryptObliviousHttpResponse(response, context).plaintext

Protocols == {"kPlain", "kBinaryHttp", "kObliviousHttp"}

\* what a call leaves behind: what the client sent, what it got, and what the
\* handler did
V2Call(protocol, body, context, handled, code, data, raw) ==
    [protocol |-> protocol, body |-> body, context |-> context,
     status |-> handled.status, bhttp_response_code |-> code, data |-> data,
     raw_response |-> raw, calls |-> handled.calls,
     parsed |-> handled.parsed, decrypted |-> handled.decrypted,
     request |-> [metadata |-> "", partitions |-> <<>>], response |-> EmptyObject]

NoV2Call ==
    [protocol |-> "none", body |-> NoData, context |-> 0, status |-> GrpcOk,
     bhttp_response_code |-> 0, data |-> NoData, raw_response |-> NoData,
     calls |-> <<>>, parsed |-> FALSE, decrypted |-> NoData,
     request |-> [metadata |-> "", partitions |-> <<>>], response |-> EmptyObject]

\* GetValuesBasedOnProtocol(request_body, response, bhttp_response_code, handler)
GetValuesBasedOnProtocol(protocol, behaviour, request_body, context) ==
    LET plain_request == PlainRequest(request_body)
        bhttp_request == BHTTPRequest(plain_request)
        plain == GetValuesHttp(behaviour, plain_request)
                    @@ [parsed |-> TRUE, decrypted |-> NoData]
        binary == BinaryHttpGetValues(behaviour, bhttp_request)
                    @@ [decrypted |-> NoData]
        oblivious == ObliviousGetValues(behaviour, OHTTPRequest(bhttp_request, context))
        bresponse == OHTTPResponseUnwrapper_Unwrap(oblivious.data, context)
    IN CASE protocol = "kPlain" ->
              V2Call(protocol, request_body, 0, plain, 200, plain.data, plain.data)
         [] protocol = "kBinaryHttp" ->
              IF binary.status.code # "OK"
              THEN V2Call(protocol, request_body, 0, binary, 0, NoData, binary.data)
              ELSE V2Call(protocol, request_body, 0, binary,
                          BHTTPResponse_ResponseCode(binary.data),
                          BHTTPResponse_Unwrap(binary.data), binary.data)
         [] protocol = "kObliviousHttp" ->
              IF oblivious.status.code # "OK"
              THEN V2Call(protocol, request_body, context, oblivious, 0, NoData,
                          oblivious.data)
              ELSE V2Call(protocol, request_body, context, oblivious,
                          BHTTPResponse_ResponseCode(bresponse),
                          BHTTPResponse_Unwrap(bresponse), oblivious.data)

\* a test calls GetValuesHttp with a JSON body
V2_Plain(request_body) ==
    /\ v2' = [v2 EXCEPT !.plain =
                 GetValuesBasedOnProtocol("kPlain", v2.behaviour, request_body, 0)]
    /\ UNCHANGED <<readerVars, udfVars, lateVars, cache, hook, sharded, v1>>

\* a test calls BinaryHttpGetValues with a JSON body in a BHTTP request
V2_BinaryHttp(request_body) ==
    /\ v2' = [v2 EXCEPT !.call =
                 GetValuesBasedOnProtocol("kBinaryHttp", v2.behaviour, request_body, 0)]
    /\ UNCHANGED <<readerVars, udfVars, lateVars, cache, hook, sharded, v1>>

\* a test calls ObliviousGetValues with a JSON body in a sealed BHTTP request
V2_ObliviousHttp(request_body, context) ==
    /\ v2' = [v2 EXCEPT !.call =
                 GetValuesBasedOnProtocol("kObliviousHttp", v2.behaviour,
                                          request_body, context)]
    /\ UNCHANGED <<readerVars, udfVars, lateVars, cache, hook, sharded, v1>>

\* a client seals its request to a key the key fetcher does not have
V2_UnknownKey(request_body, context) ==
    /\ LET raw == EncapsulateAndSerialize(BHTTPRequest(PlainRequest(request_body)),
                                          kTestKeyId + 1, context)
           handled == ObliviousGetValues(v2.behaviour, raw)
       IN v2' = [v2 EXCEPT !.call =
                    V2Call("kObliviousHttp", request_body, context, handled, 0,
                           NoData, handled.data)]
    /\ UNCHANGED <<readerVars, udfVars, lateVars, cache, hook, sharded, v1>>

\* a test calls GetValues with a request proto
V2_Grpc(request) ==
    /\ LET handled == GetValues(v2.behaviour, request)
       IN v2' = [v2 EXCEPT !.call =
                    [NoV2Call EXCEPT !.protocol = "kGrpc", !.request = request,
                                     !.status = handled.status,
                                     !.response = handled.response,
                                     !.calls = handled.calls, !.parsed = TRUE]]
    /\ UNCHANGED <<readerVars, udfVars, lateVars, cache, hook, sharded, v1>>

V2Idle ==
    v2 = [behaviour |-> [a \in {p.arguments : p \in RequestPartitions} |->
                            CHOOSE o \in UdfOutcomes : o.ok],
          plain |-> NoV2Call, call |-> NoV2Call]

(***************************************************************************)
(* GetValuesAdapterImpl: V1 requests served by the V2 handler              *)
(***************************************************************************)
kKeysTag == "keys"
kRenderUrlsTag == "renderUrls"
kAdComponentRenderUrlsTag == "adComponentRenderUrls"
kKvInternalTag == "kvInternal"
kCustomTag == "custom"

\* v1::GetValuesRequest
V1Requests ==
    [subkey : {"example.com", "www.example.com"},
     keys : {<<>>, <<"k1">>, <<"k2", "k1">>}, render_urls : {<<>>, <<"u1">>},
     ad_component_render_urls : {<<>>, <<"c1">>}, kv_internal : {<<>>, <<"i1">>}]

\* mutant: the keys of an argument lose their order and their repetitions
BuildArgument_First(keys, namespace_tag) ==
    [tags |-> <<kCustomTag, namespace_tag>>, data |-> <<keys[1]>>]

BuildArgument(keys, namespace_tag) ==
    [tags |-> <<kCustomTag, namespace_tag>>, data |-> keys]

\* mutant: an argument is built for an empty namespace too
BuildV2Request_Always(v1_request) ==
    [metadata |-> v1_request.subkey,
     partitions |-> <<[id |-> 0, arguments |->
          <<BuildArgument(v1_request.keys, kKeysTag),
            BuildArgument(v1_request.render_urls, kRenderUrlsTag),
            BuildArgument(v1_request.ad_component_render_urls,
                          kAdComponentRenderUrlsTag),
            BuildArgument(v1_request.kv_internal, kKvInternalTag)>>]>>]

\* the V2 request of a V1 request: one partition with an argument for each
\* key list that is not empty
BuildV2Request(v1_request) ==
    [metadata |-> v1_request.subkey,
     partitions |-> <<[id |-> 0, arguments |->
          (IF Len(v1_request.keys) > 0
           THEN <<BuildArgument(v1_request.keys, kKeysTag)>> ELSE <<>>)
          \o (IF Len(v1_request.render_urls) > 0
              THEN <<BuildArgument(v1_request.render_urls, kRenderUrlsTag)>> ELSE <<>>)
          \o (IF Len(v1_request.ad_component_render_urls) > 0
              THEN <<BuildArgument(v1_request.ad_component_render_urls,
                                   kAdComponentRenderUrlsTag)>> ELSE <<>>)
          \o (IF Len(v1_request.kv_internal) > 0
              THEN <<BuildArgument(v1_request.kv_internal, kKvInternalTag)>>
              ELSE <<>>)]>>]

\* google::protobuf::Value: the values a UDF puts in its output
StringValue(s) == [kind |-> "string_value", string_value |-> s, number_value |-> 0]
NumberValue(n) == [kind |-> "number_value", string_value |-> "", number_value |-> n]
StructValue(s) == [kind |-> "struct_value", string_value |-> s, number_value |-> 0]

OutputValues == {StringValue("v1"), StringValue("123"), StringValue("{}"), NumberValue(7)}

\* JsonStringToMessage(string_value, &value_proto): the value a string
\* denotes as JSON, if it is JSON
JsonStringToValue(s) ==
    CASE s = "123" -> [ok |-> TRUE, value |-> NumberValue(123)]
      [] s = "{}" -> [ok |-> TRUE, value |-> StructValue("{}")]
      [] OTHER -> [ok |-> FALSE, value |-> StringValue("")]

\* the key_values maps of a key group output
KeyValueMaps ==
    UNION {[ks -> [value : OutputValues]] : ks \in SUBSET Keys}

KeyGroupTagLists ==
    {<<kCustomTag, kKeysTag>>, <<kRenderUrlsTag, kCustomTag>>,
     <<kCustomTag, kAdComponentRenderUrlsTag>>, <<kCustomTag, kKvInternalTag>>,
     <<kKeysTag>>, <<kKeysTag, kRenderUrlsTag>>}

\* application_pa::KeyGroupOutput
KeyGroupOutputs == [tags : KeyGroupTagLists, key_values : KeyValueMaps]

\* the string outputs of a UDF: the JSON of its key group outputs, or no JSON
StringOutputs ==
    {[kind |-> "json", keyGroupOutputs |-> <<[tags |-> o.tags, keyValues |-> o.key_values]>>]
        : o \in KeyGroupOutputs}
    \cup {[kind |-> "json", keyGroupOutputs |-> <<>>], [kind |-> "malformed"]}

\* application_pa::KeyGroupOutputsFromJson(string_output)
KeyGroupOutputsFromJson(string_output) ==
    IF string_output.kind # "json"
    THEN [status |-> [code |-> kInvalidArgument, message |-> "cannot parse the output"],
          key_group_outputs |-> <<>>]
    ELSE [status |-> [code |-> 0, message |-> ""],
          key_group_outputs |->
             [i \in DOMAIN string_output.keyGroupOutputs |->
                [tags |-> string_output.keyGroupOutputs[i].tags,
                 key_values |-> string_output.keyGroupOutputs[i].keyValues]]]

\* mutant: the raw value is written only when the string is not JSON
SetField_KeepParsed(result_struct, k, v) ==
    IF v.value.kind = "string_value" /\ JsonStringToValue(v.value.string_value).ok
    THEN k :> JsonStringToValue(v.value.string_value).value @@ result_struct
    ELSE k :> v.value @@ result_struct

\* the body of the loop of ProcessKeyValues for the pair (k, v): the parsed
\* JSON is written if the value is a string of JSON, then the value itself
SetField(result_struct, k, v) ==
    LET parsed == IF v.value.kind = "string_value" /\ JsonStringToValue(v.value.string_value).ok
                  THEN k :> JsonStringToValue(v.value.string_value).value @@ result_struct
                  ELSE result_struct
    IN k :> v.value @@ parsed

RECURSIVE SetFields(_, _, _)
SetFields(result_struct, key_values, ks) ==
    IF ks = {} THEN result_struct
    ELSE LET k == CHOOSE x \in ks : TRUE
         IN SetFields(SetField(result_struct, k, key_values[k]), key_values, ks \ {k})

\* ProcessKeyValues(key_group_output, result_struct)
ProcessKeyValues(key_group_output, result_struct) ==
    SetFields(result_struct, key_group_output.key_values,
              DOMAIN key_group_output.key_values)

\* the last tag of a list that is not "custom", "" if there is none
RECURSIVE MaybeNamespaceTag(_)
MaybeNamespaceTag(tags) ==
    IF tags = <<>> THEN ""
    ELSE IF tags[Len(tags)] # kCustomTag THEN tags[Len(tags)]
    ELSE MaybeNamespaceTag(SubSeq(tags, 1, Len(tags) - 1))

\* FindNamespace(tags): the tag that is paired with the "custom" tag
FindNamespace(tags) ==
    IF Len(tags) # 2
    THEN [ok |-> FALSE, value |-> ""]
    ELSE IF \E i \in DOMAIN tags : tags[i] = kCustomTag
    THEN [ok |-> TRUE, value |-> MaybeNamespaceTag(tags)]
    ELSE [ok |-> FALSE, value |-> ""]

EmptyV1Response ==
    [keys |-> EmptyObject, render_urls |-> EmptyObject,
     ad_component_render_urls |-> EmptyObject, kv_internal |-> EmptyObject]

\* ProcessKeyGroupOutput(key_group_output, v1_response)
ProcessKeyGroupOutput(key_group_output, v1_response) ==
    LET ns == FindNamespace(key_group_output.tags)
    IN IF ~ns.ok THEN v1_response
       ELSE CASE ns.value = kKeysTag ->
                   [v1_response EXCEPT !.keys = ProcessKeyValues(key_group_output, @)]
              [] ns.value = kRenderUrlsTag ->
                   [v1_response EXCEPT !.render_urls = ProcessKeyValues(key_group_output, @)]
              [] ns.value = kAdComponentRenderUrlsTag ->
                   [v1_response EXCEPT !.ad_component_render_urls =
                                          ProcessKeyValues(key_group_output, @)]
              [] ns.value = kKvInternalTag ->
                   [v1_response EXCEPT !.kv_internal = ProcessKeyValues(key_group_output, @)]
              [] OTHER -> v1_response

RECURSIVE ProcessKeyGroupOutputs(_, _)
ProcessKeyGroupOutputs(outputs, v1_response) ==
    IF outputs = <<>> THEN v1_response
    ELSE ProcessKeyGroupOutputs(Tail(outputs),
                                ProcessKeyGroupOutput(Head(outputs), v1_response))

\* mutant: a partition's status is reported as an internal error
ConvertToV1Response_Internal(v2_response, v1_response) ==
    IF "single_partition" \notin DOMAIN v2_response
       \/ "status" \in DOMAIN v2_response.single_partition
    THEN [status |-> [code |-> kInternal,
                      message |-> "Bug in KV server! response does not have single_partition set for V1 response."],
          v1_response |-> v1_response]
    ELSE [status |-> [code |-> 0, message |-> ""], v1_response |-> v1_response]

\* ConvertToV1Response(v2_response, v1_response)
ConvertToV1Response(v2_response, v1_response) ==
    IF "single_partition" \notin DOMAIN v2_response
    THEN [status |-> [code |-> kInternal,
                      message |-> "Bug in KV server! response does not have single_partition set for V1 response."],
          v1_response |-> v1_response]
    ELSE IF "status" \in DOMAIN v2_response.single_partition
    THEN [status |-> [code |-> v2_response.single_partition.status.code,
                      message |-> v2_response.single_partition.status.message],
          v1_response |-> v1_response]
    ELSE LET outputs == KeyGroupOutputsFromJson(v2_response.single_partition.string_output)
         IN IF outputs.status.code # 0
            THEN [status |-> outputs.status, v1_response |-> v1_response]
            ELSE [status |-> [code |-> 0, message |-> ""],
                  v1_response |->
                     ProcessKeyGroupOutputs(outputs.key_group_outputs, v1_response)]

\* the names of the gRPC status codes
GrpcCodeName(code) ==
    CASE code = 0 -> "OK"
      [] code = kInvalidArgument -> "INVALID_ARGUMENT"
      [] code = kInternal -> "INTERNAL"
      [] OTHER -> "UNKNOWN"

\* server_common::FromAbslStatus
FromAbslStatus(status) == GrpcStatus(GrpcCodeName(status.code), status.message)

\* what v2_handler_->GetValues can return for the one partition of a V1
\* request: a failure, or a response with or without single_partition
V2HandlerResults ==
    {[status |-> GrpcStatus("INTERNAL", "At least 1 partition is required"),
      response |-> EmptyObject],
     [status |-> GrpcOk, response |-> EmptyObject],
     [status |-> GrpcOk,
      response |-> [partitions |-> <<[id |-> 0, string_output |-> [kind |-> "malformed"]]>>]]}
    \cup {[status |-> GrpcOk,
           response |-> [single_partition |-> [id |-> 0, status |-> s]]]
            : s \in {[code |-> kInternal, message |-> "UDF execution error"],
                     [code |-> kInvalidArgument, message |-> "bad input"]}}
    \cup {[status |-> GrpcOk,
           response |-> [single_partition |-> [id |-> 0, string_output |-> so]]]
            : so \in StringOutputs}

\* a call that has not been made: the V1 request, what the V2 handler will
\* return for it, and the response the caller passes in
NoV1Call(v1_request, handled) ==
    [done |-> FALSE, v1_request |-> v1_request,
     v2_request |-> [metadata |-> "", partitions |-> <<>>],
     handled |-> handled, status |-> GrpcOk, v1_response |-> EmptyV1Response]

\* GetValuesAdapterImpl::CallV2Handler(v1_request, v1_response)
CallV2Handler ==
    /\ ~v1.done
    /\ LET v2_request == BuildV2Request(v1.v1_request)
           converted == ConvertToV1Response(v1.handled.response, v1.v1_response)
       IN v1' = IF v1.handled.status.code # "OK"
                THEN [v1 EXCEPT !.done = TRUE, !.v2_request = v2_request,
                                !.status = v1.handled.status]
                ELSE [v1 EXCEPT !.done = TRUE, !.v2_request = v2_request,
                                !.status = FromAbslStatus(converted.status),
                                !.v1_response = converted.v1_response]
    /\ UNCHANGED <<readerVars, udfVars, lateVars, cache, hook, sharded, v2>>

V1Idle ==
    v1 = NoV1Call(CHOOSE r \in V1Requests : TRUE,
                  [status |-> GrpcOk, response |-> EmptyObject])

(***************************************************************************)
(* ShardedServerInitializer: the creation of the shard manager and the     *)
(* initialization of the UDF hooks                                         *)
(***************************************************************************)
\* the cluster mappings for num_shards shards: the number of replicas of each
ClusterMappings(num_shards) == [0..(num_shards - 1) -> 0..MaxReplicas]

\* every shard has a replica
HasReplicaForEveryShard(cluster_mappings) ==
    \A shard \in DOMAIN cluster_mappings : cluster_mappings[shard] > 0

\* ShardManager::Create(num_shards, key_fetcher_manager, cluster_mappings,
\* metrics_recorder): fails when a shard has no replica
ShardManager_Create(num_shards, cluster_mappings) ==
    /\ DOMAIN cluster_mappings = 0..(num_shards - 1)
    /\ HasReplicaForEveryShard(cluster_mappings)

NotFetched == [fetched |-> FALSE, cluster_mappings |-> <<>>]

\* mutant: the mappings are fetched for the first attempt only
AttemptMappings_Once(last, cluster) ==
    IF last.fetched THEN last.cluster_mappings ELSE cluster

\* cluster_mappings_manager.GetClusterMappings() in the retried function:
\* the mappings of the cluster at the time of the attempt
AttemptMappings(last, cluster) == cluster

UdfHooks == {"string_get_values_hook", "binary_get_values_hook", "run_query_hook"}

\* GetServerInitializer: the class of the initializer of a server of
\* num_shards shards (num_shards > 0 is CHECKed)
GetServerInitializer(num_shards) ==
    IF num_shards = 1 THEN "NonshardedServerInitializer"
    ELSE "ShardedServerInitializer"

\* the lookup supplier of an initializer: CreateLocalLookup in the non-sharded
\* one, CreateShardedLookup in the sharded one; every call makes an instance
get_lookup(initializer, call) ==
    [kind |-> IF initializer = "NonshardedServerInitializer"
              THEN "local" ELSE "sharded",
     instance |-> call]

\* mutant: one lookup is obtained and given to the three hooks
HookLookups_Shared(initializer) ==
    {[hook |-> h, lookup |-> get_lookup(initializer, 1)] : h \in UdfHooks}

\* mutant: the hooks are always given local lookups
HookLookups_Local(initializer) ==
    {[hook |-> "string_get_values_hook",
      lookup |-> get_lookup("NonshardedServerInitializer", 1)],
     [hook |-> "binary_get_values_hook",
      lookup |-> get_lookup("NonshardedServerInitializer", 2)],
     [hook |-> "run_query_hook",
      lookup |-> get_lookup("NonshardedServerInitializer", 3)]}

\* InitializeUdfHooksInternal: FinishInit(get_lookup()) of the string hook,
\* then of the binary hook, then of the runQuery hook
HookLookups(initializer) ==
    {[hook |-> "string_get_values_hook", lookup |-> get_lookup(initializer, 1)],
     [hook |-> "binary_get_values_hook", lookup |-> get_lookup(initializer, 2)],
     [hook |-> "run_query_hook", lookup |-> get_lookup(initializer, 3)]}

\* the initializer of a server of num_shards shards before InitializeUdfHooks
ShardedInitial(num_shards, cluster) ==
    [pc |-> IF GetServerInitializer(num_shards) = "ShardedServerInitializer"
            THEN "CreateShardManager" ELSE "InitializeUdfHooks",
     initializer |-> GetServerInitializer(num_shards),
     num_shards |-> num_shards, cluster |-> cluster,
     attempts |-> 0, last |-> NotFetched, shard_manager |-> FALSE,
     started |-> FALSE, finished_init |-> {}, lookups |-> {},
     status |-> "none"]

\* NonshardedServerInitializer::InitializeUdfHooks: FinishInit of the three
\* hooks with local lookups, and the return of an empty shard manager state
Nonsharded_InitializeUdfHooks ==
    /\ sharded.pc = "InitializeUdfHooks"
    /\ sharded' = [sharded EXCEPT !.pc = "returned", !.finished_init = UdfHooks,
                                  !.lookups = HookLookups(sharded.initializer),
                                  !.status = "ok"]
    /\ UNCHANGED <<readerVars, udfVars, lateVars, cache, hook, v1, v2>>

\* CreateShardManager up to the retried creation: the cluster mappings
\* manager is created
CreateShardManager ==
    /\ sharded.pc = "CreateShardManager"
    /\ sharded' = [sharded EXCEPT !.pc = "TraceRetryUntilOk"]
    /\ UNCHANGED <<readerVars, udfVars, lateVars, cache, hook, v1, v2>>

\* one attempt of TraceRetryUntilOk: the retried function fetches the
\* mappings and calls ShardManager::Create; the attempt is repeated after a
\* backoff unless it returned OK
TraceRetryUntilOk_Attempt ==
    /\ sharded.pc = "TraceRetryUntilOk"
    /\ LET cluster_mappings == AttemptMappings(sharded.last, sharded.cluster)
           fetched == [fetched |-> TRUE, cluster_mappings |-> cluster_mappings]
       IN IF ShardManager_Create(sharded.num_shards, cluster_mappings)
          THEN sharded' = [sharded EXCEPT !.pc = "Start", !.last = fetched,
                                          !.shard_manager = TRUE]
          ELSE sharded' = [sharded EXCEPT !.last = fetched,
                              !.attempts = IF @ < MaxAttempts THEN @ + 1 ELSE @]
    /\ UNCHANGED <<readerVars, udfVars, lateVars, cache, hook, v1, v2>>

\* cluster_mappings_manager->Start(*shard_manager), and the return of its
\* status when it is not OK
ClusterMappingsManager_Start(start_ok) ==
    /\ sharded.pc = "Start"
    /\ sharded' = IF start_ok
                  THEN [sharded EXCEPT !.pc = "InitializeUdfHooksInternal",
                                       !.started = TRUE]
                  ELSE [sharded EXCEPT !.pc = "returned", !.status = "start_status"]
    /\ UNCHANGED <<readerVars, udfVars, lateVars, cache, hook, v1, v2>>

\* InitializeUdfHooksInternal: FinishInit of the three hooks with a sharded
\* lookup, and the return of the shard manager state
InitializeUdfHooksInternal ==
    /\ sharded.pc = "InitializeUdfHooksInternal"
    /\ sharded' = [sharded EXCEPT !.pc = "returned", !.finished_init = UdfHooks,
                                  !.lookups = HookLookups(sharded.initializer),
                                  !.status = "ok"]
    /\ UNCHANGED <<readerVars, udfVars, lateVars, cache, hook, v1, v2>>

\* replicas of the cluster come and go
ClusterChanges(cluster) ==
    /\ cluster \in ClusterMappings(sharded.num_shards)
    /\ cluster # sharded.cluster
    /\ sharded' = [sharded EXCEPT !.cluster = cluster]
    /\ UNCHANGED <<readerVars, udfVars, lateVars, cache, hook, v1, v2>>

ShardedIdle == sharded = ShardedInitial(2, [shard \in 0..1 |-> 0])

(***************************************************************************)
(* Cache, loaded by LoadCacheFromKVMutationRecord                          *)
(***************************************************************************)
CacheKeys == {"k1"}
CacheValues == {"a", "b"}
CacheElements == {"x", "y"}
CommitTimes == 0..MaxCommitTime

\* KeyValueMutationRecordStruct: an update with a string, an update with a
\* list of strings, or a delete
MutationRecords ==
    [mutation_type : {"Update"}, key : CacheKeys, kind : {"string"},
     value : CacheValues, list : {{}}, logical_commit_time : CommitTimes]
    \cup [mutation_type : {"Update"}, key : CacheKeys, kind : {"list"},
          value : {""}, list : (SUBSET CacheElements) \ {{}},
          logical_commit_time : CommitTimes]
    \cup [mutation_type : {"Delete"}, key : CacheKeys, kind : {"string"},
          value : {""}, list : {{}}, logical_commit_time : CommitTimes]

\* an entry of the cache: a value or a tombstone, with its commit time; -1
\* when nothing was stored
NoEntry == [present |-> FALSE, value |-> "", lct |-> -1]

\* mutant: an update of the same commit time replaces the value
UpdateKeyValue_OrEqual(kv, key, value, logical_commit_time) ==
    IF kv[key].lct > logical_commit_time THEN kv
    ELSE [kv EXCEPT ![key] = [present |-> TRUE, value |-> value,
                              lct |-> logical_commit_time]]

\* Cache::UpdateKeyValue: the value is stored unless the entry or its
\* tombstone is as recent
UpdateKeyValue(kv, key, value, logical_commit_time) ==
    IF kv[key].lct >= logical_commit_time THEN kv
    ELSE [kv EXCEPT ![key] = [present |-> TRUE, value |-> value,
                              lct |-> logical_commit_time]]

\* Cache::DeleteKey: a delete that is not older than the entry removes it and
\* leaves a tombstone of its commit time
DeleteKey(kv, key, logical_commit_time) ==
    IF kv[key].lct > logical_commit_time THEN kv
    ELSE [kv EXCEPT ![key] = [present |-> FALSE, value |-> "",
                              lct |-> logical_commit_time]]

\* Cache::UpdateKeyValueSet: each element is added under the max-LCT rule of
\* its own
UpdateKeyValueSet(sets, key, list, logical_commit_time) ==
    [sets EXCEPT ![key] =
        [e \in CacheElements |->
            IF e \in list /\ sets[key][e] < logical_commit_time
            THEN logical_commit_time ELSE sets[key][e]]]

\* Cache::GetKeyValuePairs for one key: the value, if present
GetKeyValue(kv, key) == IF kv[key].present THEN {kv[key].value} ELSE {}

\* Cache::GetKeyValueSet for one key: the elements of the set
GetKeyValueSet(sets, key) == {e \in CacheElements : sets[key][e] >= 0}

\* what was written for a key so far: the greatest commit time of the
\* string updates and their values, of the deletes, and of the list updates
\* and their lists
NoWrites ==
    [update_lct |-> -1, update_values |-> {}, delete_lct |-> -1,
     list_lct |-> -1, lists |-> {}, elements |-> {}, lower |-> FALSE]

Written(w, record) ==
    CASE record.mutation_type = "Delete" ->
           [w EXCEPT !.delete_lct = Max(@, record.logical_commit_time),
                     !.lower = @ \/ record.logical_commit_time
                                      < Max(w.update_lct, w.delete_lct)]
      [] record.mutation_type = "Update" /\ record.kind = "string" ->
           IF record.logical_commit_time > w.update_lct
           THEN [w EXCEPT !.update_lct = record.logical_commit_time,
                          !.update_values = {record.value},
                          !.lower = @ \/ record.logical_commit_time < w.delete_lct]
           ELSE IF record.logical_commit_time = w.update_lct
           THEN [w EXCEPT !.update_values = @ \cup {record.value}]
           ELSE [w EXCEPT !.lower = TRUE]
      [] OTHER ->
           IF record.logical_commit_time > w.list_lct
           THEN [w EXCEPT !.list_lct = record.logical_commit_time,
                          !.lists = {record.list},
                          !.elements = @ \cup record.list]
           ELSE IF record.logical_commit_time = w.list_lct
           THEN [w EXCEPT !.lists = @ \cup {record.list},
                          !.elements = @ \cup record.list]
           ELSE [w EXCEPT !.elements = @ \cup record.list]

EmptyCache ==
    [kv |-> [k \in CacheKeys |-> NoEntry],
     sets |-> [k \in CacheKeys |-> [e \in CacheElements |-> -1]],
     writes |-> [k \in CacheKeys |-> NoWrites]]

\* LoadCacheFromKVMutationRecord(record, cache)
LoadCacheFromKVMutationRecord(record) ==
    /\ cache' =
          [kv |-> CASE record.mutation_type = "Delete" ->
                        DeleteKey(cache.kv, record.key, record.logical_commit_time)
                    [] record.mutation_type = "Update" /\ record.kind = "string" ->
                        UpdateKeyValue(cache.kv, record.key, record.value,
                                       record.logical_commit_time)
                    [] OTHER -> cache.kv,
           sets |-> IF record.mutation_type = "Update" /\ record.kind = "list"
                    THEN UpdateKeyValueSet(cache.sets, record.key, record.list,
                                           record.logical_commit_time)
                    ELSE cache.sets,
           writes |-> [cache.writes EXCEPT ![record.key] = Written(@, record)]]
    /\ UNCHANGED <<readerVars, udfVars, lateVars, hook, sharded, v1, v2>>

CacheIdle == cache = EmptyCache

(***************************************************************************)
(* UdfClientImpl called from several threads: the members are read and     *)
(* written without a lock                                                  *)
(***************************************************************************)
SetThreads == {1, 2}

IdleSetThread == [pc |-> "idle", code_config |-> NoConfig, status |-> OkStatus,
                  assigned |-> FALSE]

IdleExecThread == [pc |-> "idle", version_num |-> 0, handler_name |-> ""]

ThreadsInitial == [set |-> [t \in SetThreads |-> IdleSetThread],
                   exec |-> IdleExecThread]

\* SetCodeObject of thread t up to the wait for the load
Thread_SetCodeObject(t, code_config) ==
    /\ threads.set[t].pc = "idle"
    /\ threads' = [threads EXCEPT !.set[t] =
          IF LctTooSmall(udf.logical_commit_time, code_config.logical_commit_time)
          THEN [@ EXCEPT !.pc = "done", !.code_config = code_config]
          ELSE [@ EXCEPT !.pc = "LoadCodeObj", !.code_config = code_config]]
    /\ UNCHANGED <<readerVars, udf, roma, set_call, exec_call,
                   cache, hook, sharded, v1, v2, handler, param>>

\* the load of thread t ends: with an error, or the thread goes on to the
\* assignments
Thread_LoadDone(t, load_ok) ==
    /\ threads.set[t].pc = "LoadCodeObj"
    /\ threads' = [threads EXCEPT !.set[t] =
          IF load_ok THEN [@ EXCEPT !.pc = "handler_name_"]
          ELSE [@ EXCEPT !.pc = "done", !.status = LoadResponseError]]
    /\ UNCHANGED <<readerVars, udf, roma, set_call, exec_call,
                   cache, hook, sharded, v1, v2, handler, param>>

\* handler_name_ = std::move(code_config.udf_handler_name)
Thread_AssignHandlerName(t) ==
    /\ threads.set[t].pc = "handler_name_"
    /\ udf' = [udf EXCEPT !.handler_name = threads.set[t].code_config.udf_handler_name]
    /\ threads' = [threads EXCEPT !.set[t].pc = "logical_commit_time_"]
    /\ UNCHANGED <<readerVars, roma, set_call, exec_call,
                   cache, hook, sharded, v1, v2, handler, param>>

\* logical_commit_time_ = code_config.logical_commit_time
Thread_AssignLogicalCommitTime(t) ==
    /\ threads.set[t].pc = "logical_commit_time_"
    /\ udf' = [udf EXCEPT !.logical_commit_time =
                             threads.set[t].code_config.logical_commit_time]
    /\ threads' = [threads EXCEPT !.set[t].pc = "version_"]
    /\ UNCHANGED <<readerVars, roma, set_call, exec_call,
                   cache, hook, sharded, v1, v2, handler, param>>

\* version_ = code_config.version; return absl::OkStatus()
Thread_AssignVersion(t) ==
    /\ threads.set[t].pc = "version_"
    /\ udf' = [udf EXCEPT !.version = threads.set[t].code_config.version]
    /\ threads' = [threads EXCEPT !.set[t].pc = "done", !.set[t].assigned = TRUE]
    /\ UNCHANGED <<readerVars, roma, set_call, exec_call,
                   cache, hook, sharded, v1, v2, handler, param>>

\* BuildInvocationRequest: .version_num = static_cast<uint64_t>(version_)
Thread_ReadVersion ==
    /\ threads.exec.pc = "idle"
    /\ threads' = [threads EXCEPT !.exec.pc = "handler_name_",
                                  !.exec.version_num = udf.version]
    /\ UNCHANGED <<readerVars, udfVars, cache, hook, sharded, v1, v2, handler, param>>

\* BuildInvocationRequest: .handler_name = handler_name_
Thread_ReadHandlerName ==
    /\ threads.exec.pc = "handler_name_"
    /\ threads' = [threads EXCEPT !.exec.pc = "built",
                                  !.exec.handler_name = udf.handler_name]
    /\ UNCHANGED <<readerVars, udfVars, cache, hook, sharded, v1, v2, handler, param>>

ThreadsIdle == threads = ThreadsInitial

(***************************************************************************)
(* GetValuesHandler: V1 requests served by the cache or by the V2 adapter  *)
(***************************************************************************)
kCacheKeyHit == "CacheKeyHit"
kCacheKeyMiss == "CacheKeyMiss"

\* the key lists of a namespace of a request; an element is written as the
\* sequence of the individual keys that kQueryArgDelimiter separates in it
HandlerKeyLists == {<<>>, <<<<"k1">>>>, <<<<"k1", "k2">>, <<"k3">>>>}

\* v1::GetValuesRequest
HandlerRequests ==
    [kv_internal : HandlerKeyLists, keys : HandlerKeyLists,
     render_urls : HandlerKeyLists, ad_component_render_urls : HandlerKeyLists]

\* the contents of the cache: string values, some of them JSON
HandlerCaches == UNION {[ks -> {"v1", "123"}] : ks \in SUBSET {"k1", "k2"}}

\* what the adapter answers
AdapterResults ==
    {[status |-> GrpcOk, response |-> EmptyV1Response],
     [status |-> GrpcOk,
      response |-> [EmptyV1Response EXCEPT !.keys = "k1" :> StringValue("udf")]],
     [status |-> GrpcStatus("INTERNAL", "UDF execution error"),
      response |-> EmptyV1Response]}

\* GetKeys(keys): the set of the individual keys of the elements of the list
GetKeys(keys) ==
    UNION {{keys[i][j] : j \in DOMAIN keys[i]} : i \in DOMAIN keys}

\* cache.GetKeyValuePairs(key_set): the entries of the cache for the keys
Cache_GetKeyValuePairs(cache_, key_set) ==
    [k \in key_set \cap DOMAIN cache_ |-> cache_[k]]

\* the field of the result struct for a value of the cache: the message the
\* string denotes as JSON, or else the string
FieldValue(v) ==
    IF JsonStringToValue(v).ok THEN JsonStringToValue(v).value
    ELSE StringValue(v)

\* a handler before GetValues is called
HandlerInitial(use_v2, cache_, request, adapter) ==
    [done |-> FALSE, use_v2_ |-> use_v2, cache_ |-> cache_, request |-> request,
     adapter |-> adapter, adapter_calls |-> 0, cache_reads |-> <<>>,
     events |-> <<>>, status |-> GrpcOk, response |-> EmptyV1Response]

\* mutant: the counter is incremented for every pair that was found
ProcessKeys_PerKey(h, keys, namespace) ==
    IF keys = <<>> THEN h
    ELSE LET kv_pairs == Cache_GetKeyValuePairs(h.cache_, GetKeys(keys))
             found == [i \in 1..Cardinality(DOMAIN kv_pairs) |->
                          [namespace |-> namespace, counter |-> kCacheKeyHit]]
         IN [h EXCEPT
               !.cache_reads = Append(@, GetKeys(keys)),
               !.events = IF DOMAIN kv_pairs = {}
                          THEN Append(@, [namespace |-> namespace,
                                          counter |-> kCacheKeyMiss])
                          ELSE @ \o found,
               !.response[namespace] =
                  [k \in DOMAIN kv_pairs |-> FieldValue(kv_pairs[k])] @@ @]

\* mutant: a key that is not in the cache is answered with an empty string
ProcessKeys_AllKeys(h, keys, namespace) ==
    IF keys = <<>> THEN h
    ELSE LET kv_pairs == Cache_GetKeyValuePairs(h.cache_, GetKeys(keys))
         IN [h EXCEPT
               !.cache_reads = Append(@, GetKeys(keys)),
               !.events = Append(@, [namespace |-> namespace,
                                     counter |-> IF DOMAIN kv_pairs = {}
                                                 THEN kCacheKeyMiss
                                                 ELSE kCacheKeyHit]),
               !.response[namespace] =
                  [k \in GetKeys(keys) |->
                     IF k \in DOMAIN kv_pairs THEN FieldValue(kv_pairs[k])
                     ELSE StringValue("")] @@ @]

\* ProcessKeys(keys, cache, metrics_recorder, result_struct) for the result
\* struct of a namespace of the response
ProcessKeys(h, keys, namespace) ==
    IF keys = <<>> THEN h
    ELSE LET kv_pairs == Cache_GetKeyValuePairs(h.cache_, GetKeys(keys))
         IN [h EXCEPT
               !.cache_reads = Append(@, GetKeys(keys)),
               !.events = Append(@, [namespace |-> namespace,
                                     counter |-> IF DOMAIN kv_pairs = {}
                                                 THEN kCacheKeyMiss
                                                 ELSE kCacheKeyHit]),
               !.response[namespace] =
                  [k \in DOMAIN kv_pairs |-> FieldValue(kv_pairs[k])] @@ @]

\* GetValuesHandler::GetValues(request, response)
GetValuesHandler_GetValues ==
    /\ ~handler.done
    /\ handler' =
         IF handler.use_v2_
         THEN [handler EXCEPT !.done = TRUE, !.adapter_calls = @ + 1,
                              !.status = handler.adapter.status,
                              !.response = handler.adapter.response]
         ELSE LET request == handler.request
                  h1 == IF request.kv_internal # <<>>
                        THEN ProcessKeys(handler, request.kv_internal, "kv_internal")
                        ELSE handler
                  h2 == IF request.keys # <<>>
                        THEN ProcessKeys(h1, request.keys, "keys") ELSE h1
                  h3 == IF request.render_urls # <<>>
                        THEN ProcessKeys(h2, request.render_urls, "render_urls")
                        ELSE h2
                  h4 == IF request.ad_component_render_urls # <<>>
                        THEN ProcessKeys(h3, request.ad_component_render_urls,
                                         "ad_component_render_urls")
                        ELSE h3
              IN [h4 EXCEPT !.done = TRUE, !.status = GrpcOk]
    /\ UNCHANGED <<readerVars, udfVars, cache, hook, sharded, v1, v2, threads, param>>

HandlerIdle ==
    handler = HandlerInitial(FALSE, EmptyObject,
                             CHOOSE r \in HandlerRequests : TRUE,
                             [status |-> GrpcOk, response |-> EmptyV1Response])

(***************************************************************************)
(* GcpParameterClient: GetParameter over the asynchronous parameter client *)
(***************************************************************************)
\* the values the parameter service answers with
ParameterValues == {"v", "EMPTY_STRING", "", "42", "true"}

\* what the underlying parameter_client_->GetParameter does with a request:
\* the execution result it returns, whether it ever runs the callback, and
\* the result and the response it runs it with.  A call that was accepted
\* runs its callback; one that failed synchronously may or may not
ParameterClientBehaviours ==
    {b \in [execution_result : BOOLEAN, runs_callback : BOOLEAN,
            result : BOOLEAN, parameter_value : ParameterValues] :
        b.execution_result => b.runs_callback}

ParameterKinds == {"GetParameter", "GetInt32Parameter", "GetBoolParameter"}

NoParameter ==
    [code |-> "NONE", string |-> "", int32 |-> 0, bool |-> FALSE]

\* a call of one of the getters of the client that has not started
ParamInitial(kind, behaviour) ==
    [pc |-> "idle", kind |-> kind, behaviour |-> behaviour,
     counter |-> 1, callback |-> "none", execution_result |-> FALSE,
     param_value |-> "", returned |-> NoParameter]

\* absl::SimpleAtoi(*parameter, &parameter_int32)
SimpleAtoi(str) ==
    IF str = "42" THEN [ok |-> TRUE, value |-> 42] ELSE [ok |-> FALSE, value |-> 0]

\* absl::SimpleAtob(*parameter, &parameter_bool)
SimpleAtob(str) ==
    IF str = "true" THEN [ok |-> TRUE, value |-> TRUE]
    ELSE [ok |-> FALSE, value |-> FALSE]

\* what GetParameter returns once counter.Wait() has returned
GetParameter_Result(execution_result, param_value) ==
    IF ~execution_result
    THEN [NoParameter EXCEPT !.code = "UNAVAILABLE"]
    ELSE [NoParameter EXCEPT !.code = "OK", !.string = param_value]

\* GetInt32Parameter and GetBoolParameter on the result of GetParameter
ConvertParameter(kind, parameter) ==
    IF parameter.code # "OK" \/ kind = "GetParameter" THEN parameter
    ELSE IF kind = "GetInt32Parameter"
    THEN IF SimpleAtoi(parameter.string).ok
         THEN [NoParameter EXCEPT !.code = "OK",
                                  !.int32 = SimpleAtoi(parameter.string).value]
         ELSE [NoParameter EXCEPT !.code = "INVALID_ARGUMENT"]
    ELSE IF SimpleAtob(parameter.string).ok
         THEN [NoParameter EXCEPT !.code = "OK",
                                  !.bool = SimpleAtob(parameter.string).value]
         ELSE [NoParameter EXCEPT !.code = "INVALID_ARGUMENT"]

\* GetParameter up to counter.Wait(): the counter is made and the request is
\* handed to the underlying client with the callback
GetParameter_Call ==
    /\ param.pc = "idle"
    /\ param' = [param EXCEPT
                   !.pc = "Wait",
                   !.execution_result = param.behaviour.execution_result,
                   !.callback = IF param.behaviour.runs_callback
                                THEN "pending" ELSE "never"]
    /\ UNCHANGED <<readerVars, udfVars, cache, hook, sharded, v1, v2, threads, handler>>

\* the callback, run by the underlying client
GetParameter_Callback ==
    /\ param.callback = "pending"
    /\ param' = [param EXCEPT
                   !.callback = "ran",
                   !.param_value =
                      IF ~param.behaviour.result THEN @
                      ELSE IF param.behaviour.parameter_value # "EMPTY_STRING"
                      THEN param.behaviour.parameter_value ELSE "",
                   !.counter = @ - 1]
    /\ UNCHANGED <<readerVars, udfVars, cache, hook, sharded, v1, v2, threads, handler>>

\* counter.Wait() returns when the count is zero; then the execution result
\* is looked at and the getter returns
GetParameter_WaitReturns ==
    /\ param.pc = "Wait"
    /\ param.counter = 0
    /\ param' = [param EXCEPT
                   !.pc = "returned",
                   !.returned = ConvertParameter(param.kind,
                       GetParameter_Result(param.execution_result,
                                           param.param_value))]
    /\ UNCHANGED <<readerVars, udfVars, cache, hook, sharded, v1, v2, threads, handler>>

ParamIdle ==
    param = ParamInitial("GetParameter",
                         [execution_result |-> TRUE, runs_callback |-> TRUE,
                          result |-> TRUE, parameter_value |-> "v"])

LateIdle == ThreadsIdle /\ HandlerIdle /\ ParamIdle

ServerIdle == CacheIdle /\ HookIdle /\ ShardedIdle /\ V1Idle /\ V2Idle /\ LateIdle

(***************************************************************************)
(* The specifications                                                      *)
(***************************************************************************)
UdfIdle ==
    /\ udf = InitialUdf
    /\ roma = InitialRoma
    /\ set_call = IdleSetCall
    /\ exec_call = IdleExecCall

ReaderIdle ==
    /\ stream = [size |-> 0, begins |-> {}, nrec |-> <<>>, seekable |-> TRUE]
    /\ options = [num_worker_threads |-> 1, min_shard_size_bytes |-> 1]
    /\ reader_kind = "None"
    /\ build = [status |-> OkStatus, shards |-> <<>>, shard_size |-> 0,
                generated |-> <<>>]
    /\ tasks = <<>>
    /\ rs = [pc |-> "start", i |-> 0, status |-> OkStatus, prev |-> NoResult,
             total_records_read |-> 0]
    /\ seq = [pc |-> "reading", rd |-> FreshReader, overall_ok |-> TRUE,
              status |-> OkStatus, num_records_read |-> 0]
    /\ delivered = <<>>

InitUdf == UdfIdle /\ ReaderIdle /\ ServerIdle

\* every code config; invocations without arguments
NextUdf ==
    \/ \E code_config \in CodeConfigs : SetCodeObject_Call(code_config)
    \/ Roma_LoadDone
    \/ SetCodeObject_Wait
    \/ SetCodeObject_Finish
    \/ ExecuteCode_Call(NoMetadata, <<>>)
    \/ Roma_ExecuteDone
    \/ Roma_AbandonedExecuteDone
    \/ ExecuteCode_Wait
    \/ ExecuteCode_Finish

SpecUdf == InitUdf /\ [][NextUdf]_vars

\* a client with no code or with any code installed, no call in progress
InitUdfArgs ==
    /\ \/ udf = InitialUdf /\ roma = InitialRoma
       \/ \E cc \in CodeConfigs :
            /\ udf = UdfFields(cc)
            /\ roma = [InitialRoma EXCEPT !.loaded = BuildCodeObject(cc.js, cc.version)]
    /\ set_call = IdleSetCall
    /\ exec_call = IdleExecCall
    /\ ReaderIdle
    /\ ServerIdle

\* invocations with every metadata and argument list
NextUdfArgs ==
    \/ \E m \in UDFExecutionMetadatas, arguments \in SeqsUpTo(UDFArguments, MaxArgs) :
         ExecuteCode_Call(m, arguments)
    \/ Roma_ExecuteDone
    \/ Roma_AbandonedExecuteDone
    \/ ExecuteCode_Wait
    \/ ExecuteCode_Finish

SpecUdfArgs == InitUdfArgs /\ [][NextUdfArgs]_vars

\* GetValuesHook::Create(output_type): a hook of either output type
InitHook ==
    /\ hook \in [output_type : {"kString", "kBinary"}, lookup : {FALSE},
                 lookup_id : {0}, call : {NoHookCall}]
    /\ ReaderIdle
    /\ UdfIdle
    /\ CacheIdle
    /\ ShardedIdle
    /\ V1Idle
    /\ V2Idle
    /\ LateIdle

NextHook ==
    \/ \E lookup \in 1..MaxLookups : FinishInit(lookup)
    \/ \E io_input \in IoInputs : Hook_Invoke(io_input)

SpecHook == InitHook /\ [][NextHook]_vars

\* the V2 handler with a UDF of any behaviour, called over its transports
InitV2 ==
    /\ v2 \in [behaviour : UdfBehaviours, plain : {NoV2Call}, call : {NoV2Call}]
    /\ ReaderIdle /\ UdfIdle /\ HookIdle /\ V1Idle /\ ShardedIdle /\ CacheIdle
    /\ LateIdle

NextV2 ==
    \/ \E request_body \in RequestBodies : V2_Plain(request_body)
    \/ \E request_body \in RequestBodies : V2_BinaryHttp(request_body)
    \/ \E request_body \in RequestBodies, context \in Contexts :
          V2_ObliviousHttp(request_body, context)
    \/ \E request_body \in RequestBodies, context \in Contexts :
          V2_UnknownKey(request_body, context)
    \/ \E request \in GetValuesRequests : V2_Grpc(request)

SpecV2 == InitV2 /\ [][NextV2]_vars

\* the V1 adapter over a V2 handler of any result
InitV1 ==
    /\ v1 \in {NoV1Call(v1_request, handled) :
                  v1_request \in V1Requests, handled \in V2HandlerResults}
    /\ ReaderIdle /\ UdfIdle /\ HookIdle /\ V2Idle /\ ShardedIdle /\ CacheIdle
    /\ LateIdle

NextV1 == CallV2Handler

SpecV1 == InitV1 /\ [][NextV1]_vars

\* the cache loaded with mutation records in any order
InitCache ==
    /\ CacheIdle /\ ReaderIdle /\ UdfIdle /\ HookIdle /\ ShardedIdle /\ V1Idle /\ V2Idle
    /\ LateIdle

NextCache == \E record \in MutationRecords : LoadCacheFromKVMutationRecord(record)

SpecCache == InitCache /\ [][NextCache]_vars

\* the sharded initializer in a cluster whose replicas come and go
InitSharded ==
    /\ \E num_shards \in 2..MaxShards :
          \E cluster \in ClusterMappings(num_shards) :
             sharded = ShardedInitial(num_shards, cluster)
    /\ ReaderIdle /\ UdfIdle /\ HookIdle /\ V1Idle /\ V2Idle /\ CacheIdle
    /\ LateIdle

NextSharded ==
    \/ CreateShardManager
    \/ TraceRetryUntilOk_Attempt
    \/ \E start_ok \in BOOLEAN : ClusterMappingsManager_Start(start_ok)
    \/ InitializeUdfHooksInternal
    \/ \E cluster \in ClusterMappings(sharded.num_shards) : ClusterChanges(cluster)

SpecSharded == InitSharded /\ [][NextSharded]_vars

\* the initializer that GetServerInitializer makes for a server of one or of
\* several shards
InitInitializer ==
    /\ \E num_shards \in 1..MaxShards :
          \E cluster \in ClusterMappings(num_shards) :
             sharded = ShardedInitial(num_shards, cluster)
    /\ ReaderIdle /\ UdfIdle /\ HookIdle /\ V1Idle /\ V2Idle /\ CacheIdle
    /\ LateIdle

NextInitializer ==
    \/ Nonsharded_InitializeUdfHooks
    \/ NextSharded

SpecInitializer == InitInitializer /\ [][NextInitializer]_vars

\* two threads that each call SetCodeObject once and a thread that calls
\* ExecuteCode, on a new client
InitThreads ==
    /\ udf = InitialUdf
    /\ roma = InitialRoma
    /\ set_call = IdleSetCall
    /\ exec_call = IdleExecCall
    /\ threads = ThreadsInitial
    /\ ReaderIdle
    /\ CacheIdle /\ HookIdle /\ ShardedIdle /\ V1Idle /\ V2Idle
    /\ HandlerIdle /\ ParamIdle

NextThreads ==
    \/ \E t \in SetThreads, code_config \in CodeConfigs :
          Thread_SetCodeObject(t, code_config)
    \/ \E t \in SetThreads, load_ok \in BOOLEAN : Thread_LoadDone(t, load_ok)
    \/ \E t \in SetThreads : Thread_AssignHandlerName(t)
    \/ \E t \in SetThreads : Thread_AssignLogicalCommitTime(t)
    \/ \E t \in SetThreads : Thread_AssignVersion(t)
    \/ Thread_ReadVersion
    \/ Thread_ReadHandlerName

SpecThreads == InitThreads /\ [][NextThreads]_vars

\* a handler of either routing over any cache and adapter, given any request
InitHandler ==
    /\ handler \in {HandlerInitial(use_v2, cache_, request, adapter) :
                       use_v2 \in BOOLEAN, cache_ \in HandlerCaches,
                       request \in HandlerRequests, adapter \in AdapterResults}
    /\ ReaderIdle /\ UdfIdle
    /\ CacheIdle /\ HookIdle /\ ShardedIdle /\ V1Idle /\ V2Idle
    /\ ThreadsIdle /\ ParamIdle

NextHandler == GetValuesHandler_GetValues

SpecHandler == InitHandler /\ [][NextHandler]_vars

\* one call of a getter of the parameter client, over any behaviour of the
\* underlying client
InitParam ==
    /\ param \in {ParamInitial(kind, behaviour) :
                     kind \in ParameterKinds, behaviour \in ParameterClientBehaviours}
    /\ ReaderIdle /\ UdfIdle
    /\ CacheIdle /\ HookIdle /\ ShardedIdle /\ V1Idle /\ V2Idle
    /\ ThreadsIdle /\ HandlerIdle

NextParam ==
    \/ GetParameter_Call
    \/ GetParameter_Callback
    \/ GetParameter_WaitReturns

SpecParam == InitParam /\ [][NextParam]_vars

\* the caller's thread runs, a callback the underlying client owes is run
\* by it, and a Wait whose count is zero returns
SpecParamFair ==
    SpecParam /\ WF_vars(GetParameter_Call) /\ WF_vars(GetParameter_Callback)
    /\ WF_vars(GetParameter_WaitReturns)

\* InitializeUdfHooks runs on the initializing thread, and the retry loop
\* backs off for a finite time, so an attempt that can be made is made
SpecShardedFair ==
    SpecSharded /\ WF_vars(CreateShardManager) /\ WF_vars(TraceRetryUntilOk_Attempt)

(***************************************************************************)
(* The reader specification                                                *)
(***************************************************************************)
InitReader ==
    /\ stream \in Streams
    /\ options \in [num_worker_threads : 1..MaxWorkers,
                    min_shard_size_bytes : (1..MaxMinShardSize) \cup {kDefaultMinShardSize}]
    /\ reader_kind \in {"Concurrent", "Riegeli"}
    /\ reader_kind = "Riegeli" =>
          /\ stream.seekable
          /\ options = [num_worker_threads |-> 1, min_shard_size_bytes |-> 1]
    /\ build = [status |-> OkStatus, shards |-> <<>>, shard_size |-> 0,
                generated |-> <<>>]
    /\ tasks = <<>>
    /\ rs = [pc |-> "start", i |-> 0, status |-> OkStatus, prev |-> NoResult,
             total_records_read |-> 0]
    /\ seq = [pc |-> "reading", rd |-> FreshReader, overall_ok |-> TRUE,
              status |-> OkStatus, num_records_read |-> 0]
    /\ delivered = [r \in Records(stream) |-> 0]
    /\ UdfIdle
    /\ ServerIdle

NextReader ==
    \/ Launch
    \/ \E i \in 1..MaxWorkers : TaskSeek(i)
    \/ \E i \in 1..MaxWorkers : TaskRead(i)
    \/ Join
    \/ Return
    \/ SeqRead

SpecReader == InitReader /\ [][NextReader]_vars

(***************************************************************************)
(* Properties of the record stream readers                                 *)
(***************************************************************************)
ConcurrentReturned == reader_kind = "Concurrent" /\ rs.pc = "returned"

\* C1: whenever ReadStreamRecords of the concurrent reader returns OK, the
\* callback has been invoked exactly once for every record of the stream
\* (no record skipped, no record delivered by two shard tasks).
C1_ExactlyOnce ==
    (ConcurrentReturned /\ IsOk(rs.status)) =>
        \A r \in Records(stream) : delivered[r] = 1

\* the part of C1 that does hold: no record is skipped
C1_NoneSkipped ==
    (ConcurrentReturned /\ IsOk(rs.status)) =>
        \A r \in Records(stream) : delivered[r] >= 1

\* adjacent shard results that leave a gap, stated on the result fields
GapAt(j) ==
    tasks[j - 1].result.next_shard_first_record_pos < tasks[j].result.first_record_pos

GapPairs == {j \in 2..Len(tasks) : GapAt(j)}

Least(S) == CHOOSE x \in S : \A y \in S : x <= y

AllTasksOk == \A i \in DOMAIN tasks : tasks[i].pc = "ok"

FailedTasks == {i \in DOMAIN tasks : tasks[i].pc = "failed"}

\* C2: when every shard task succeeded and some adjacent pair of shard
\* results has prev.next_shard_first_record_pos < curr.first_record_pos,
\* ReadStreamRecords returns the "Skipped some records" error with the two
\* positions of the lowest such pair; it never returns OK in that case.
C2_GapReported ==
    (ConcurrentReturned /\ tasks # <<>> /\ AllTasksOk /\ GapPairs # {}) =>
        LET j == Least(GapPairs)
        IN /\ rs.status.code = "INTERNAL"
           /\ rs.status.msg = "Skipped some records between byte=%d and byte=%d."
           /\ rs.status.a = tasks[j - 1].result.next_shard_first_record_pos
           /\ rs.status.b = tasks[j].result.first_record_pos

\* a read of three shards where the first pair is contiguous and the second
\* pair leaves a gap
C2_Witness ==
    /\ ConcurrentReturned /\ Len(tasks) = 3 /\ AllTasksOk
    /\ GapPairs = {3}
    /\ rs.status.a < rs.status.b

\* least c with c * w >= s, i.e. ceil(s / w)
CeilOf(s, w) == Least({c \in 0..s : c * w >= s})

\* C3: BuildShards computes shard_size = min(S, max(ceil(S / W), min_shard_size_bytes));
\* the shard size never exceeds S and, when S >= min_shard_size_bytes, is never
\* below min_shard_size_bytes.
C3_ShardSize ==
    (reader_kind = "Concurrent" /\ rs.pc # "start" /\ stream.seekable) =>
        LET S == stream.size
            W == options.num_worker_threads
            m == options.min_shard_size_bytes
            c == CeilOf(S, W)
            inner == IF c >= m THEN c ELSE m
        IN /\ build.shard_size = (IF S <= inner THEN S ELSE inner)
           /\ build.shard_size <= S
           /\ S >= m => build.shard_size >= m

\* the minimum shard size decides the shard size
C3_Witness ==
    /\ reader_kind = "Concurrent" /\ rs.pc # "start" /\ stream.seekable
    /\ IsOk(build.status)
    /\ build.shard_size = options.min_shard_size_bytes
    /\ build.shard_size > CeilOf(stream.size, options.num_worker_threads)
    /\ build.shard_size < stream.size

\* C4: the shards generated by BuildShards start at 0, each next shard starts
\* one byte after the end of the previous one, every shard ends at
\* min(start_pos + shard_size, S) and starts before S; BuildShards returns
\* the list iff it is not empty and its last shard ends at S, and otherwise
\* Internal("Failed to generate shards.").
C4_ShardList ==
    (reader_kind = "Concurrent" /\ rs.pc # "start" /\ stream.seekable) =>
        LET g == build.generated
            S == stream.size
            complete == g # <<>> /\ g[Len(g)].end_pos = S
        IN /\ g # <<>> => g[1].start_pos = 0
           /\ \A i \in 1..(Len(g) - 1) : g[i + 1].start_pos = g[i].end_pos + 1
           /\ \A i \in 1..Len(g) :
                /\ g[i].start_pos < S
                /\ g[i].end_pos = (IF g[i].start_pos + build.shard_size <= S
                                   THEN g[i].start_pos + build.shard_size ELSE S)
           /\ complete => (IsOk(build.status) /\ build.shards = g)
           /\ ~complete => (build.status = FailedToGenerateShards /\ build.shards = <<>>)

C4_Witness ==
    /\ reader_kind = "Concurrent" /\ rs.pc # "start"
    /\ IsOk(build.status)
    /\ Len(build.shards) = 3
    /\ build.shards[3].end_pos = stream.size

\* C5: when some shard task failed, ReadStreamRecords returns a non-OK
\* status: the status of the lowest-indexed failing shard, unless an adjacent
\* pair of earlier shards leaves a gap, in which case the gap error of the
\* lowest such pair.
C5_ShardFailure ==
    (ConcurrentReturned /\ FailedTasks # {}) =>
        LET k == Least(FailedTasks)
            early == {j \in GapPairs : j < k}
        IN /\ ~IsOk(rs.status)
           /\ early = {} => rs.status = tasks[k].status
           /\ early # {} =>
                rs.status = SkippedRecordsError(
                    tasks[Least(early) - 1].result.next_shard_first_record_pos,
                    tasks[Least(early)].result.first_record_pos)

\* the third shard failed after two shards that read without a gap
C5_Witness ==
    /\ ConcurrentReturned /\ Len(tasks) = 3
    /\ FailedTasks = {3}
    /\ GapPairs \cap {2} = {}
    /\ rs.status = tasks[3].status
    /\ rs.status.msg = "read failed"

RECURSIVE SumOver(_, _)
SumOver(f, D) ==
    IF D = {} THEN 0
    ELSE LET x == CHOOSE x \in D : TRUE IN f[x] + SumOver(f, D \ {x})

CallbackCalls == SumOver(delivered, DOMAIN delivered)

\* the status ReadStreamRecords returns for the outcomes of the readers of
\* the shards, whatever the callbacks returned
ReaderOutcomeStatus ==
    LET events == FailedTasks \cup GapPairs
        e == Least(events)
    IN IF events = {} THEN OkStatus
       ELSE IF e \in FailedTasks THEN tasks[e].status
       ELSE SkippedRecordsError(tasks[e - 1].result.next_shard_first_record_pos,
                                tasks[e].result.first_record_pos)

\* C6: a failing record callback never stops the reading and never changes
\* the result: every callback invocation is counted in num_records_read, a
\* shard task only ends at the end of its shard or of the stream or on a
\* reader error, ReadStreamRecords returns what the readers' outcomes alone
\* determine, and the sequential reader that returns OK has delivered every
\* record of the stream.
C6_CallbackFailureIgnored ==
    /\ reader_kind = "Concurrent" =>
         /\ CallbackCalls =
              SumOver([i \in DOMAIN tasks |-> tasks[i].result.num_records_read],
                      DOMAIN tasks)
         /\ \A i \in DOMAIN tasks :
              /\ tasks[i].pc = "ok" =>
                   \/ tasks[i].result.next_shard_first_record_pos > build.shards[i].end_pos
                   \/ \A r \in Records(stream) :
                        r < tasks[i].result.next_shard_first_record_pos
              /\ tasks[i].pc = "failed" =>
                   tasks[i].status \in {SeekFailedStatus(i), ReadFailedStatus(i)}
         /\ (rs.pc = "returned" /\ tasks # <<>>) => rs.status = ReaderOutcomeStatus
    /\ reader_kind = "Riegeli" =>
         /\ CallbackCalls = seq.num_records_read
         /\ seq.pc = "returned" =>
              /\ seq.status \in {OkStatus, ReadFailedStatus(0)}
              /\ IsOk(seq.status) => \A r \in Records(stream) : delivered[r] = 1

\* a shard task whose callback failed went on to deliver a later record, and
\* the read returned OK
C6_Witness ==
    /\ ConcurrentReturned /\ IsOk(rs.status)
    /\ \E i \in DOMAIN tasks :
         /\ ~tasks[i].overall_ok
         /\ tasks[i].result.num_records_read >= 2

(***************************************************************************)
(* Properties of the UDF client                                            *)
(***************************************************************************)
SetReturned == set_call.pc = "done"

\* the code config of the last SetCodeObject call is not newer than what was
\* installed when the call began
NotNewer ==
    set_call.code_config.logical_commit_time <= set_call.before.logical_commit_time

\* a step in which ExecuteCode hands a request to Roma
ExecuteDispatched ==
    /\ exec_call' # exec_call
    /\ exec_call.pc \in {"idle", "done"}
    /\ exec_call'.pc \in {"waiting", "done"}
    /\ exec_call'.execute_called

C7_Returned ==
    SetReturned =>
       /\ NotNewer =>
            /\ IsOk(set_call.status)
            /\ ~set_call.load_called
            /\ udf = set_call.before
       /\ ~NotNewer => set_call.load_called
       /\ IsOk(set_call.status) => (udf # set_call.before <=> ~NotNewer)
       /\ udf # set_call.before => udf = UdfFields(set_call.code_config)
       /\ ~IsOk(set_call.status) => udf = set_call.before

C7_NextExecute ==
    (ExecuteDispatched /\ SetReturned /\ NotNewer) =>
        exec_call'.request.handler_name = set_call.before.handler_name

\* C7: a SetCodeObject call whose logical commit time is not strictly greater
\* than the stored one returns OK, sends nothing to Roma and leaves the
\* handler name, version and logical commit time as they were; a call with a
\* strictly greater one sends the code to Roma, and when it returns OK
\* the three fields are those of its code config (a call that returns an
\* error leaves them as they were). An ExecuteCode that follows a call that
\* was not newer asks Roma for the handler that was installed before
\* that call.
C7_LctGate == [](C7_Returned) /\ [][C7_NextExecute]_vars

\* c1 is installed, SetCodeObject(c2) with a different handler and a logical
\* commit time that is not greater has returned, and an ExecuteCode is
\* waiting for c1's handler
C7_Witness ==
    /\ SetReturned /\ NotNewer
    /\ set_call.before.logical_commit_time >= 0
    /\ set_call.code_config.udf_handler_name # set_call.before.handler_name
    /\ exec_call.pc = "waiting"
    /\ exec_call.request.handler_name = set_call.before.handler_name

ExecuteReturned ==
    /\ exec_call.pc = "done"
    /\ exec_call.execute_called
    /\ IsOk(exec_call.execute_status)

\* C8: an ExecuteCode whose request was accepted by Roma waits with
\* the udf_timeout of one minute; when the notification is not set at the
\* check that follows the wait it returns Internal "Timed out waiting for UDF
\* result.", and it returns that error in no other case; it returns OK only
\* with the output of a callback that reported success and was seen at that
\* check.
C8_ExecuteTimeout ==
    ExecuteReturned =>
       /\ exec_call.timeout = 60
       /\ ~exec_call.notified =>
            exec_call.ret =
               [status |-> Status("INTERNAL", "Timed out waiting for UDF result.", 0, 0),
                value |-> ""]
       /\ exec_call.ret.status.msg = "Timed out waiting for UDF result." =>
            ~exec_call.notified /\ exec_call.wait_timed_out
       /\ IsOk(exec_call.ret.status) =>
            /\ exec_call.notified
            /\ IsOk(exec_call.response_status)
            /\ exec_call.ret.value = exec_call.result
            /\ exec_call.result \in RomaOutputs

\* an ExecuteCode with two arguments has timed out
C8_Witness ==
    /\ ExecuteReturned
    /\ exec_call.wait_timed_out /\ ~exec_call.notified
    /\ exec_call.ret.status = ExecuteTimedOut
    /\ Len(exec_call.arguments) = 2

LoadDispatched ==
    /\ SetReturned
    /\ set_call.load_called
    /\ IsOk(set_call.load_status)

\* C9: a SetCodeObject whose LoadCodeObj was accepted by Roma waits
\* with the timeout of one second; when the load callback has not been seen
\* at the check that follows the wait it returns Internal "Timed out setting
\* UDF code object." and installs nothing, and it returns that error in no
\* other case.
C9_SetCodeTimeout ==
    LoadDispatched =>
       /\ set_call.timeout = 1
       /\ ~set_call.notified =>
            /\ set_call.status =
                 Status("INTERNAL", "Timed out setting UDF code object.", 0, 0)
            /\ udf = set_call.before
       /\ set_call.status.msg = "Timed out setting UDF code object." =>
            ~set_call.notified /\ set_call.wait_timed_out

\* a SetCodeObject with a newer code config has timed out over installed code
C9_Witness ==
    /\ LoadDispatched
    /\ ~NotNewer
    /\ set_call.before.logical_commit_time >= 0
    /\ set_call.wait_timed_out /\ ~set_call.notified
    /\ set_call.status = SetCodeTimedOut

\* the metadata or one of the arguments of the last ExecuteCode call cannot
\* be printed as JSON
SerializationFails ==
    \/ exec_call.metadata.request_metadata = "bad"
    \/ \E i \in DOMAIN exec_call.arguments : exec_call.arguments[i].data = "bad"

\* C10: ExecuteCode(metadata, arguments) hands Roma arguments.size() + 1
\* strings: the JSON of the metadata with udf_interface_version 1, then for
\* each argument, in order, the JSON of its data when it has no tags and the
\* JSON of the whole argument when it has tags; when the metadata or an
\* argument cannot be printed the call returns that error and Roma is
\* not called.
C10_StringArgs ==
    exec_call.pc # "idle" =>
       LET m == exec_call.metadata
           a == exec_call.arguments
           input == exec_call.request.input
       IN /\ SerializationFails =>
               /\ exec_call.pc = "done"
               /\ ~exec_call.execute_called
               /\ exec_call.ret = [status |-> JsonError, value |-> ""]
          /\ ~SerializationFails =>
               /\ exec_call.execute_called
               /\ Len(input) = Len(a) + 1
               /\ input[1] = [type |-> "UDFExecutionMetadata",
                              requestMetadata |-> m.request_metadata,
                              udfInterfaceVersion |-> 1]
               /\ \A i \in DOMAIN a :
                    input[i + 1] =
                       IF a[i].tags = <<>>
                       THEN [type |-> "Value", value |-> a[i].data]
                       ELSE [type |-> "UDFArgument", tags |-> a[i].tags,
                             data |-> a[i].data]

\* Roma was called with an argument without tags followed by an
\* argument with tags, for metadata that arrived with another version
C10_Witness ==
    /\ exec_call.execute_called
    /\ exec_call.metadata.udf_interface_version # 1
    /\ Len(exec_call.arguments) = 2
    /\ exec_call.arguments[1].tags = <<>>
    /\ exec_call.arguments[2].tags # <<>>
    /\ Len(exec_call.request.input) = 3

(***************************************************************************)
(* Properties of the getValues hook                                        *)
(***************************************************************************)
\* the output is the status (code, message) and nothing else, in the
\* encoding of the hook
OutputIsStatus(output, code, message) ==
    \/ /\ output.kind = "output_string"
       /\ output.json = [code |-> code, message |-> message]
    \/ /\ output.kind = "output_bytes"
       /\ output.message = [kv_pairs |-> [k \in {} |-> 0],
                            status |-> [code |-> code, message |-> message]]

NotListInvocation ==
    /\ hook.call.invoked
    /\ hook.call.input.kind # "input_list_of_string"

\* C11 as stated: every invocation of the hook with an input that is not a
\* list of strings writes the InvalidArgument status "getValues input must be
\* list of strings" and does not call the lookup.
C11_NotListIsInvalidArgument ==
    NotListInvocation =>
       /\ OutputIsStatus(hook.call.output, 3, "getValues input must be list of strings")
       /\ ~hook.call.lookup_called

\* C11, amended: an invocation with an input that is not a list of strings
\* writes the InvalidArgument status "getValues input must be list of strings"
\* when FinishInit has set the lookup, and the Internal status "getValues has
\* not been initialized yet" when it has not; in both cases the lookup is not
\* called and the hook returns with a status as its output.
C11_NotListStatus ==
    NotListInvocation =>
       /\ hook.call.initialized =>
            OutputIsStatus(hook.call.output, 3,
                           "getValues input must be list of strings")
       /\ ~hook.call.initialized =>
            OutputIsStatus(hook.call.output, 13,
                           "getValues has not been initialized yet")
       /\ ~hook.call.lookup_called

\* an initialized hook was invoked with an input that is not a list
C11_Witness ==
    /\ NotListInvocation
    /\ hook.call.initialized
    /\ hook.call.input.kind = "input_string"

LookupSucceeded ==
    /\ hook.call.invoked
    /\ hook.call.lookup_called
    /\ hook.call.lookup_result.ok

\* the key-value entries and the top-level status of the hook's output
OutputEntries(output) ==
    IF output.kind = "output_bytes" THEN output.message.kv_pairs
    ELSE IF "kvPairs" \in DOMAIN output.json THEN output.json.kvPairs
    ELSE [k \in {} |-> 0]

OutputStatus(output) ==
    IF output.kind = "output_bytes" THEN output.message.status
    ELSE output.json.status

V2Calls == {c \in {v2.plain, v2.call} : c.protocol # "none"}

\* the request of a call and the response its client holds, as protos
RequestOf(c) == IF c.protocol = "kGrpc" THEN c.request ELSE JsonToRequest(c.body).request
ResponseOf(c) == IF c.protocol = "kGrpc" THEN c.response ELSE JsonToResponse(c.data)

\* the partitions of a response, in their order
ResponseEntries(r) ==
    IF "single_partition" \in DOMAIN r THEN <<r.single_partition>>
    ELSE IF "partitions" \in DOMAIN r THEN r.partitions ELSE <<>>

\* the call reached the handling of the partitions of its request
PartitionsHandled(c) ==
    /\ c.parsed
    /\ c.protocol = "kGrpc" \/ c.body.kind = "json"
    /\ RequestOf(c).partitions # <<>>

UdfFails(c, i) == ~v2.behaviour[RequestOf(c).partitions[i].arguments].ok

OverEnvelope(c) == c.protocol \in {"kBinaryHttp", "kObliviousHttp"}

\* C13: when the UDF fails for a partition of a request, the call succeeds
\* (gRPC OK, and BHTTP status 200 over BHTTP and OHTTP), the entry of that
\* partition carries the code and the message of the UDF's error and no
\* string output, and the entries of the partitions whose UDF succeeded carry
\* the UDF's output.
C13_PartitionFailureIsLocal ==
    \A c \in V2Calls :
        (PartitionsHandled(c) /\ \E i \in DOMAIN RequestOf(c).partitions : UdfFails(c, i))
        => /\ c.status.code = "OK"
           /\ OverEnvelope(c) => c.bhttp_response_code = 200
           /\ Len(ResponseEntries(ResponseOf(c))) = Len(RequestOf(c).partitions)
           /\ \A i \in DOMAIN RequestOf(c).partitions :
                 LET e == ResponseEntries(ResponseOf(c))[i]
                     out == v2.behaviour[RequestOf(c).partitions[i].arguments]
                 IN IF UdfFails(c, i)
                    THEN /\ "status" \in DOMAIN e
                         /\ e.status = [code |-> 13, message |-> "UDF execution error"]
                         /\ "string_output" \notin DOMAIN e
                    ELSE /\ "string_output" \in DOMAIN e
                         /\ e.string_output = out.value
                         /\ "status" \notin DOMAIN e

\* a two-partition request over OHTTP whose first partition failed and whose
\* second one succeeded
C13_Witness ==
    /\ v2.call.protocol = "kObliviousHttp"
    /\ PartitionsHandled(v2.call)
    /\ Len(RequestOf(v2.call).partitions) = 2
    /\ UdfFails(v2.call, 1) /\ ~UdfFails(v2.call, 2)
    /\ v2.call.bhttp_response_code = 200
    /\ "status" \in DOMAIN ResponseEntries(ResponseOf(v2.call))[1]
    /\ "string_output" \in DOMAIN ResponseEntries(ResponseOf(v2.call))[2]

NoPartition(c) == c.body.kind = "json" /\ RequestOf(c).partitions = <<>>

\* C15: a request without partitions fails GetValuesHttp with gRPC INTERNAL;
\* over BHTTP and OHTTP the call is gRPC OK and the BHTTP status is 500; and
\* a call over BHTTP or OHTTP whose envelope was parsed is always gRPC OK.
C15_ApplicationErrorInside ==
    /\ \A c \in V2Calls :
          (c.protocol = "kPlain" /\ NoPartition(c)) => c.status.code = "INTERNAL"
    /\ \A c \in V2Calls :
          (OverEnvelope(c) /\ c.parsed /\ NoPartition(c))
          => c.status.code = "OK" /\ c.bhttp_response_code = 500
    /\ \A c \in V2Calls : (OverEnvelope(c) /\ c.parsed) => c.status.code = "OK"

\* the same request without partitions failed over plain HTTP and was
\* answered with BHTTP status 500 over OHTTP
C15_Witness ==
    /\ v2.plain.protocol = "kPlain" /\ NoPartition(v2.plain)
    /\ v2.plain.status.code = "INTERNAL"
    /\ v2.call.protocol = "kObliviousHttp" /\ v2.call.parsed /\ NoPartition(v2.call)
    /\ v2.call.status.code = "OK" /\ v2.call.bhttp_response_code = 500

\* C16: the handler calls the UDF once for each partition, with the
\* arguments of that partition, and emits for it an entry that has the id of
\* the partition and either a string output or a status, never both; the
\* response of a request with one partition is a single_partition with the id
\* of that partition.
C16_OnePartitionOneCall ==
    \A c \in V2Calls :
        PartitionsHandled(c)
        => LET parts == RequestOf(c).partitions
               entries == ResponseEntries(ResponseOf(c))
           IN /\ Len(c.calls) = Len(parts)
              /\ Len(entries) = Len(parts)
              /\ \A i \in DOMAIN parts :
                    /\ c.calls[i].arguments = parts[i].arguments
                    /\ entries[i].id = parts[i].id
                    /\ ("string_output" \in DOMAIN entries[i])
                          # ("status" \in DOMAIN entries[i])
              /\ Len(parts) = 1
                 => /\ "single_partition" \in DOMAIN ResponseOf(c)
                    /\ ResponseOf(c).single_partition.id = parts[1].id

\* GetValues answered partition 9 whose UDF failed, and a JSON call
\* answered two partitions with different arguments
C16_Witness ==
    /\ v2.call.protocol = "kGrpc"
    /\ Len(v2.call.request.partitions) = 1
    /\ v2.call.response =
          [single_partition |->
              [id |-> 9, status |-> [code |-> 13, message |-> "UDF execution error"]]]
    /\ PartitionsHandled(v2.plain)
    /\ Len(v2.plain.calls) = 2
    /\ v2.plain.calls[1].arguments # v2.plain.calls[2].arguments

OhttpAnswered(c) == c.protocol = "kObliviousHttp" /\ c.status.code = "OK"

V1NoSinglePartition ==
    v1.handled.status.code = "OK" /\ "single_partition" \notin DOMAIN v1.handled.response

V1PartitionStatus ==
    /\ v1.handled.status.code = "OK"
    /\ "single_partition" \in DOMAIN v1.handled.response
    /\ "status" \in DOMAIN v1.handled.response.single_partition

\* C18: ConvertToV1Response returns Internal when the V2 response has no
\* single_partition and the partition's status, with its code and message,
\* when single_partition carries one, and adds nothing to the V1 response in
\* both cases; a failure of the V2 handler is returned as it is and leaves
\* the V1 response as it was.
C18_AdapterErrors ==
    v1.done
    => /\ V1NoSinglePartition
          => /\ v1.status.code = "INTERNAL"
             /\ v1.v1_response = EmptyV1Response
       /\ V1PartitionStatus
          => /\ v1.status.code =
                   GrpcCodeName(v1.handled.response.single_partition.status.code)
             /\ v1.status.code \notin {"OK", "UNKNOWN"}
             /\ v1.status.message = v1.handled.response.single_partition.status.message
             /\ v1.v1_response = EmptyV1Response
       /\ v1.handled.status.code # "OK"
          => /\ v1.status = v1.handled.status
             /\ v1.v1_response = EmptyV1Response

\* a partition status of code 3 came back as INVALID_ARGUMENT
C18_Witness ==
    /\ v1.done
    /\ V1PartitionStatus
    /\ v1.handled.response.single_partition.status.code = kInvalidArgument
    /\ v1.status = GrpcStatus("INVALID_ARGUMENT", "bad input")

\* the key group outputs of the UDF output that was converted
V1Outputs ==
    IF /\ v1.handled.status.code = "OK"
       /\ "single_partition" \in DOMAIN v1.handled.response
       /\ "string_output" \in DOMAIN v1.handled.response.single_partition
    THEN KeyGroupOutputsFromJson(v1.handled.response.single_partition.string_output)
            .key_group_outputs
    ELSE <<>>

\* the struct of the V1 response that a namespace tag names
V1Struct(tag) ==
    CASE tag = kKeysTag -> v1.v1_response.keys
      [] tag = kRenderUrlsTag -> v1.v1_response.render_urls
      [] tag = kAdComponentRenderUrlsTag -> v1.v1_response.ad_component_render_urls
      [] tag = kKvInternalTag -> v1.v1_response.kv_internal

\* C19: after a conversion, the field of each key of a key group output
\* holds the value of the UDF output as it is: a string stays that string,
\* also when it is JSON.
C19_RawValueRemains ==
    v1.done
    => \A i \in DOMAIN V1Outputs :
          LET o == V1Outputs[i]
              ns == FindNamespace(o.tags)
          IN ns.ok
             => \A k \in DOMAIN o.key_values :
                   /\ k \in DOMAIN V1Struct(ns.value)
                   /\ V1Struct(ns.value)[k] = o.key_values[k].value

\* a key whose value is a string of JSON holds that string
C19_Witness ==
    /\ v1.done
    /\ V1Outputs # <<>>
    /\ FindNamespace(V1Outputs[1].tags) = [ok |-> TRUE, value |-> kRenderUrlsTag]
    /\ "k1" \in DOMAIN V1Outputs[1].key_values
    /\ V1Outputs[1].key_values["k1"].value = StringValue("123")
    /\ v1.v1_response.render_urls["k1"] = StringValue("123")

(***************************************************************************)
(* ShardedServerInitializer                                                *)
(***************************************************************************)
ClusterComplete == HasReplicaForEveryShard(sharded.cluster)

\* the shard manager exists only after an attempt with mappings that have a
\* replica for every shard, and Start and the hooks come after it
C20_CreatedFirst ==
    /\ sharded.shard_manager
       <=> sharded.pc \in {"Start", "InitializeUdfHooksInternal", "returned"}
    /\ sharded.shard_manager
       => sharded.last.fetched /\ HasReplicaForEveryShard(sharded.last.cluster_mappings)
    /\ sharded.started => sharded.shard_manager
    /\ sharded.finished_init # {} => sharded.started

\* every attempt creates the shard manager from the mappings of the cluster
\* at the time of the attempt, and is repeated when the creation fails
C20_FreshAttempt ==
    (sharded.pc = "TraceRetryUntilOk" /\ sharded'.cluster = sharded.cluster)
    => /\ sharded'.last = [fetched |-> TRUE, cluster_mappings |-> sharded.cluster]
       /\ IF HasReplicaForEveryShard(sharded.cluster)
          THEN sharded'.shard_manager /\ sharded'.pc = "Start"
          ELSE ~sharded'.shard_manager /\ sharded'.pc = "TraceRetryUntilOk"

\* C20: the sharded initializer repeats the creation of the shard manager
\* until it succeeds, each attempt with the cluster mappings fetched for it;
\* ClusterMappingsManager::Start and the initialization of the UDF hooks come
\* only after the creation; and the shard manager is created if from some
\* time on the mappings have a replica for every shard.
C20_RetryUntilCreated ==
    /\ [](C20_CreatedFirst)
    /\ [][C20_FreshAttempt]_vars
    /\ (<>[](ClusterComplete)) => <>(sharded.shard_manager)

\* the hooks were initialized after attempts that failed
C20_Witness ==
    /\ sharded.pc = "returned"
    /\ sharded.attempts > 0
    /\ sharded.shard_manager /\ sharded.started
    /\ sharded.finished_init = UdfHooks

(***************************************************************************)
(* Cache                                                                   *)
(***************************************************************************)
\* a delete as recent as every string update was written for the key
DeletedLast(k) ==
    cache.writes[k].delete_lct >= 0
    /\ cache.writes[k].delete_lct >= cache.writes[k].update_lct

\* the value of a key is that of a string update of the greatest commit
\* time, and the key is absent after a delete that is as recent
StringMaxLct(k) ==
    IF DeletedLast(k) \/ cache.writes[k].update_lct < 0
    THEN GetKeyValue(cache.kv, k) = {}
    ELSE /\ GetKeyValue(cache.kv, k) # {}
         /\ GetKeyValue(cache.kv, k) \subseteq cache.writes[k].update_values

\* the entry of a key changes only to a commit time that is not lower, and
\* to a value only at a greater one
StringLowerIgnored ==
    \A k \in CacheKeys :
        cache'.kv[k] # cache.kv[k]
        => /\ cache'.kv[k].lct >= cache.kv[k].lct
           /\ cache'.kv[k].present => cache'.kv[k].lct > cache.kv[k].lct

ConcurrentBuilt == reader_kind = "Concurrent" /\ rs.pc # "start"

\* C22: BuildShards succeeds for every seekable stream of size S >= 1, every
\* number of worker threads >= 1 and every minimum shard size >= 1: it
\* returns a non-empty shard list whose last shard ends at S, also when S is
\* a multiple of shard_size + 1.
C22_BuildShardsSucceeds ==
    (ConcurrentBuilt /\ stream.seekable /\ stream.size >= 1) =>
        /\ IsOk(build.status)
        /\ build.shards # <<>>
        /\ build.shards[Len(build.shards)].end_pos = stream.size

\* C23: the number of shards built, and of tasks launched, never exceeds
\* num_worker_threads, and exactly one task is launched per shard.
C23_AtMostOneShardPerWorker ==
    ConcurrentBuilt =>
        /\ Len(build.generated) <= options.num_worker_threads
        /\ Len(tasks) = Len(build.shards)
        /\ Len(tasks) <= options.num_worker_threads

\* as many tasks as worker threads were launched, more than one
C23_Witness ==
    /\ ConcurrentBuilt
    /\ options.num_worker_threads >= 2
    /\ Len(tasks) = options.num_worker_threads
    /\ options.min_shard_size_bytes = 1

\* every adjacent pair of shard results satisfies prev.next >= curr.first
NoGapPairs ==
    \A j \in 2..Len(tasks) :
        tasks[j - 1].result.next_shard_first_record_pos
            >= tasks[j].result.first_record_pos

\* every adjacent pair of shard results satisfies prev.next = curr.first
AdjacentPairsMeet ==
    \A j \in 2..Len(tasks) :
        tasks[j - 1].result.next_shard_first_record_pos
            = tasks[j].result.first_record_pos

\* C24: ReadStreamRecords returns OK iff BuildShards succeeded, every shard
\* task returned OK and no adjacent pair of shard results leaves a gap; and
\* whenever it returns OK, consecutive shard results meet exactly:
\* prev.next_shard_first_record_pos = curr.first_record_pos.
C24_OkIffShardsMeet ==
    ConcurrentReturned =>
        /\ IsOk(rs.status) <=>
              (IsOk(build.status) /\ tasks # <<>> /\ AllTasksOk /\ NoGapPairs)
        /\ IsOk(rs.status) => AdjacentPairsMeet

\* the position of the reader of task i, and the record it would read next
TaskPos(i) == tasks[i].next_record_pos
TaskRecordLeft(i) == ReadRecord(stream, tasks[i].rd).found

\* one step of the task of shard i seen from outside
ShardTaskStep(i) ==
    LET t == tasks[i]
        u == tasks'[i]
        shard == build.shards[i]
    IN /\ (t.pc = "launched" /\ u.pc = "reading") =>
             /\ u.rd = Seek(stream, shard.start_pos)
             /\ u.result.first_record_pos = Pos(u.rd)
             /\ u.next_record_pos = Pos(u.rd)
             /\ u.result.num_records_read = 0
             /\ delivered' = delivered
       /\ (t.pc = "reading" /\ u.pc = "reading" /\ u # t) =>
             /\ TaskPos(i) <= shard.end_pos
             /\ TaskRecordLeft(i)
             /\ delivered' = [delivered EXCEPT ![ReadRecord(stream, t.rd).rec] = @ + 1]
             /\ u.result.num_records_read = t.result.num_records_read + 1
             /\ u.next_record_pos = Pos(u.rd)
             /\ u.rd = ReadRecord(stream, t.rd).rd
             /\ u.result.first_record_pos = t.result.first_record_pos
       /\ (t.pc = "reading" /\ u.pc = "ok") =>
             /\ TaskPos(i) > shard.end_pos \/ ~TaskRecordLeft(i)
             /\ u.result.next_shard_first_record_pos = TaskPos(i)
             /\ u.result.num_records_read = t.result.num_records_read
             /\ u.result.first_record_pos = t.result.first_record_pos
             /\ delivered' = delivered
       /\ (t.pc = "reading" /\ u.pc = "failed") => delivered' = delivered

\* C25: the task of shard [start_pos, end_pos] seeks to start_pos and reports
\* the position after the seek as first_record_pos; it delivers exactly the
\* records it reads while the position before the read is <= end_pos, each
\* one counted once in num_records_read; it reports the position after its
\* last read as next_shard_first_record_pos; a record that begins at or
\* before end_pos is read even when the read ends past end_pos.
C25_ShardTask ==
    [][\A i \in DOMAIN tasks :
          (i \in DOMAIN tasks' /\ tasks'[i] # tasks[i]) => ShardTaskStep(i)]_vars

\* a shard task read a record that began at its end position and whose read
\* ended past the start of the next shard
C25_Witness ==
    \E i \in DOMAIN tasks :
        /\ tasks[i].pc = "ok"
        /\ tasks[i].result.num_records_read >= 2
        /\ tasks[i].result.next_shard_first_record_pos > build.shards[i].end_pos + 1

\* C26: ReadStreamRecords does not return before every shard task it
\* launched has finished, on success and on every error path; after the
\* return no callback is made and no task moves.
C26_ReturnsAfterTasks ==
    /\ [](ConcurrentReturned => \A i \in DOMAIN tasks : Finished(tasks[i]))
    /\ [][ConcurrentReturned => (delivered' = delivered /\ tasks' = tasks)]_vars

\* the call returned an error found at the first shard while there were
\* other tasks, all finished
C26_Witness ==
    /\ ConcurrentReturned
    /\ ~IsOk(rs.status)
    /\ rs.i = 1
    /\ Len(tasks) >= 2
    /\ \A i \in DOMAIN tasks : Finished(tasks[i])

\* C27: for an empty stream ReadStreamRecords launches no task, never
\* calls the callback and returns Internal("Failed to generate shards.");
\* the branch taken for a failed or empty shard list never returns OK, and
\* the task list that is joined is never empty.
C27_EmptyStream ==
    /\ (ConcurrentBuilt /\ stream.seekable /\ stream.size = 0) =>
          /\ rs.pc = "returned"
          /\ rs.status = FailedToGenerateShards
          /\ tasks = <<>>
          /\ CallbackCalls = 0
    /\ (ConcurrentReturned /\ tasks = <<>>) => ~IsOk(rs.status)
    /\ (reader_kind = "Concurrent" /\ rs.pc \in {"join", "unwind"}) => tasks # <<>>

C27_Witness ==
    /\ ConcurrentReturned
    /\ stream.seekable /\ stream.size = 0
    /\ rs.status = FailedToGenerateShards


(***************************************************************************)
(* Properties of the members installed by SetCodeObject                    *)
(***************************************************************************)
\* the members are those of one code config
FromOneCodeObject(u) == \E cc \in CodeConfigs : u = UdfFields(cc)

C28_Members == udf = InitialUdf \/ FromOneCodeObject(udf)

C28_Step ==
    /\ udf'.logical_commit_time >= udf.logical_commit_time
    /\ udf' # udf =>
          /\ udf'.logical_commit_time > udf.logical_commit_time
          /\ udf' = UdfFields(set_call.code_config)
          /\ set_call'.pc = "done" /\ IsOk(set_call'.status)
    /\ (set_call.pc = "check" /\ set_call'.pc = "done" /\ IsOk(set_call'.status)) =>
          /\ udf' = UdfFields(set_call.code_config)
          /\ udf'.logical_commit_time > udf.logical_commit_time

\* C28: over any sequence of SetCodeObject calls the stored logical commit
\* time starts at -1, never decreases and strictly increases on every
\* successful install, and the stored handler name, version and logical
\* commit time always come from one code object, the last one installed.
C28_CommitTimeGrows ==
    /\ udf.logical_commit_time = -1
    /\ [](C28_Members)
    /\ [][C28_Step]_vars

\* a second code object has been installed over a first one
C28_Witness ==
    /\ SetReturned /\ IsOk(set_call.status)
    /\ set_call.before.logical_commit_time = 0
    /\ udf.logical_commit_time = 1
    /\ udf = UdfFields(set_call.code_config)
    /\ udf.handler_name # set_call.before.handler_name

SetFailed == SetReturned /\ ~IsOk(set_call.status)

\* a SetCodeObject that follows a failed call, for the same logical commit time
C29_Retry ==
    (SetFailed /\ set_call'.pc # "done"
        /\ set_call'.code_config.logical_commit_time
               = set_call.code_config.logical_commit_time)
        => (set_call'.load_called /\ set_call'.pc = "waiting")

\* C29: a SetCodeObject that returns a non-OK status (dispatch error, load
\* timeout, callback error) leaves handler_name, version and
\* logical_commit_time as they were, so that a later SetCodeObject with the
\* same logical commit time is still accepted.
C29_FailureKeepsMembers ==
    /\ [](SetFailed =>
            /\ set_call.status \in {LoadDispatchError, SetCodeTimedOut, LoadResponseError}
            /\ udf = set_call.before
            /\ ~LctTooSmall(udf.logical_commit_time,
                            set_call.code_config.logical_commit_time))
    /\ [][C29_Retry]_vars

\* a SetCodeObject over installed code failed because its load callback
\* reported an error
C29_Witness ==
    /\ SetFailed
    /\ set_call.status = LoadResponseError
    /\ set_call.before.logical_commit_time = 0
    /\ set_call.code_config.logical_commit_time = 1

\* the code loaded in Roma is the code object of the stored members
LoadedIsTracked ==
    /\ roma.loaded.version_num = udf.version
    /\ udf.handler_name = "handler" \o roma.loaded.js

\* C30: the code loaded in Roma and the handler name and version the client
\* tracks always belong to the same code object, also after a SetCodeObject
\* that timed out and whose load completed later, so that ExecuteCode asks
\* for a handler that the loaded code defines.
C30_LoadedMatchesMembers ==
    (set_call.pc \in {"idle", "done"} /\ roma.loaded # NoCode) => LoadedIsTracked

(***************************************************************************)
(* Properties of the client used from several threads                      *)
(***************************************************************************)
\* the (version, handler name) pairs of the code objects, and of a new client
InstalledPairs ==
    {<<cc.version, cc.udf_handler_name>> : cc \in CodeConfigs}
        \cup {<<InitialUdf.version, InitialUdf.handler_name>>}

\* the set threads that went through the assignments
Assigned == {t \in SetThreads : threads.set[t].pc = "done" /\ threads.set[t].assigned}

\* C31: the installed code object is guarded against concurrent access:
\* ExecuteCode builds its invocation from the handler name and version of
\* one installed code object, and after two concurrent SetCodeObject calls
\* with different logical commit times the installed object is the one with
\* the greater logical commit time.
C31_Guarded ==
    /\ threads.exec.pc = "built" =>
          <<threads.exec.version_num, threads.exec.handler_name>> \in InstalledPairs
    /\ (\A t \in SetThreads : threads.set[t].pc = "done") =>
          \A t \in Assigned :
             (\A o \in Assigned : threads.set[o].code_config.logical_commit_time
                                     <= threads.set[t].code_config.logical_commit_time
                                  /\ (o # t => threads.set[o].code_config.logical_commit_time
                                     # threads.set[t].code_config.logical_commit_time))
                => udf = UdfFields(threads.set[t].code_config)

(***************************************************************************)
(* Properties of the callbacks that run after their call has returned      *)
(***************************************************************************)
\* the step is the callback of a load whose SetCodeObject has timed out
LateLoadCallback ==
    /\ roma.loads # <<>>
    /\ roma'.loads = Tail(roma.loads)
    /\ ~Head(roma.loads).current \/ set_call.pc = "done"

\* the step is the callback of an invocation whose ExecuteCode has timed out
LateExecuteCallback == roma'.abandoned < roma.abandoned

C32_Step ==
    /\ (LateLoadCallback \/ LateExecuteCallback) =>
          (set_call' = set_call /\ exec_call' = exec_call /\ udf' = udf)

\* C32: a completion callback of Roma that runs after ExecuteCode or
\* SetCodeObject has returned a timeout error has no effect that can be
\* seen: the value returned stays as it is, no later or concurrent call is
\* notified by it (each call has its own notification, status and result),
\* and the members of the client are not touched.
C32_LateCallbacks ==
    /\ [][C32_Step]_vars
    /\ [](set_call.notified => (set_call.load_called /\ IsOk(set_call.load_status)))

\* both a SetCodeObject and an ExecuteCode have timed out, and the callbacks
\* of both have run since
C32_Witness ==
    /\ set_call.pc = "done" /\ set_call.status = SetCodeTimedOut
    /\ roma.loads = <<>>
    /\ exec_call.pc = "done" /\ exec_call.ret.status = ExecuteTimedOut
    /\ roma.abandoned = 0 /\ ~roma.executing

(***************************************************************************)
(* Properties of the two encodings and of the lookup of the hook           *)
(***************************************************************************)
\* the output that a hook of the given output type writes for the last
\* invocation: same input, same lookup, same lookup result
OutputOf(output_type) ==
    GetValuesHookCall([hook EXCEPT !.output_type = output_type,
                                   !.lookup = hook.call.initialized],
                      hook.call.input, hook.call.lookup_result).output

\* the status code and message that an output reports, wherever they are
ReportedStatus(output) ==
    IF output.kind = "output_bytes" THEN output.message.status
    ELSE IF "status" \in DOMAIN output.json THEN output.json.status
    ELSE [code |-> output.json.code, message |-> output.json.message]

\* the output has a status field
HasStatusField(output) ==
    IF output.kind = "output_bytes" THEN "status" \in DOMAIN output.message
    ELSE "status" \in DOMAIN output.json

\* the per-key entries of an output, as value or status
KeyEntries(output) ==
    LET entries == IF output.kind = "output_bytes" THEN output.message.kv_pairs
                   ELSE IF "kvPairs" \in DOMAIN output.json THEN output.json.kvPairs
                   ELSE [k \in {} |-> 0]
    IN [k \in DOMAIN entries |->
          IF "status" \in DOMAIN entries[k]
          THEN [kind |-> "status", value |-> "", status |-> entries[k].status]
          ELSE [kind |-> "value",
                value |-> IF output.kind = "output_bytes" THEN entries[k].data
                          ELSE entries[k].value,
                status |-> [code |-> 0, message |-> ""]]]

HookFailed ==
    \/ ~hook.call.initialized
    \/ ~HasInputListOfString(hook.call.input)
    \/ ~hook.call.lookup_result.ok

SameStatusAndEntries ==
    /\ OutputOf(hook.output_type) = hook.call.output
    /\ ReportedStatus(OutputOf("kString")) = ReportedStatus(OutputOf("kBinary"))
    /\ KeyEntries(OutputOf("kString")) = KeyEntries(OutputOf("kBinary"))

C34_FirstLookupKept ==
    /\ [](hook.lookup <=> hook.lookup_id # 0)
    /\ []((hook.call.invoked /\ ~hook.call.initialized) =>
            /\ OutputIsStatus(hook.call.output, 13,
                              "getValues has not been initialized yet")
            /\ ~hook.call.lookup_called
            /\ hook.call.lookup_used = 0)
    /\ [](hook.call.lookup_called =>
            (hook.call.initialized /\ hook.call.lookup_used = hook.lookup_id))
    /\ [][hook.lookup => hook'.lookup_id = hook.lookup_id]_vars

\* the hook was given lookup 1 and an invocation with two keys used it
C34_Witness ==
    /\ hook.lookup_id = 1
    /\ hook.call.lookup_called
    /\ hook.call.lookup_used = 1
    /\ Len(hook.call.input.data) = 2

\* C35: when the lookup fails as a whole the output carries a status with
\* exactly the code and message of the lookup error and no kv pairs; the
\* keys passed to the lookup are the distinct strings of the input list.
C35_LookupFailure ==
    hook.call.lookup_called =>
       /\ hook.call.lookup_keys =
             {hook.call.input.data[i] : i \in DOMAIN hook.call.input.data}
       /\ ~hook.call.lookup_result.ok =>
             /\ OutputIsStatus(hook.call.output,
                               hook.call.lookup_result.status.code,
                               hook.call.lookup_result.status.message)
             /\ KeyEntries(hook.call.output) = [k \in {} |-> 0]

\* the lookup of a list that names one key twice failed
C35_Witness ==
    /\ hook.call.lookup_called
    /\ ~hook.call.lookup_result.ok
    /\ Len(hook.call.input.data) = 2
    /\ Cardinality(hook.call.lookup_keys) = 1

\* C36: every invocation of the hook, on every path, sets exactly one
\* output, in the encoding fixed at construction: output_string for kString,
\* output_bytes for kBinary, never the other one.
C36_OneOutput ==
    hook.call.invoked =>
       /\ hook.output_type = "kString" => hook.call.output.kind = "output_string"
       /\ hook.output_type = "kBinary" => hook.call.output.kind = "output_bytes"

\* a binary hook was invoked with an input that is not a list
C36_Witness ==
    /\ hook.call.invoked
    /\ hook.output_type = "kBinary"
    /\ hook.call.initialized
    /\ ~HasInputListOfString(hook.call.input)
    /\ hook.call.output.kind = "output_bytes"

\* the lookups of the hooks, as hook -> lookup pairs
LookupOf(h) == {l.lookup : l \in {x \in sharded.lookups : x.hook = h}}

\* C37: when InitializeUdfHooks has returned OK, each of the three hooks has
\* been given a lookup, the three lookups are different instances that come
\* from three calls of the supplier, and they are local lookups when
\* num_shards = 1 and sharded lookups otherwise; when the sharded
\* initializer returns the error of the start of the shard manager no hook
\* has been initialized
C37_HooksInitialized ==
    /\ (sharded.pc = "returned" /\ sharded.status = "ok")
       => /\ sharded.finished_init = UdfHooks
          /\ \A h \in UdfHooks : Cardinality(LookupOf(h)) = 1
          /\ \A h1, h2 \in UdfHooks :
                h1 # h2 => LookupOf(h1) \cap LookupOf(h2) = {}
          /\ \A l \in sharded.lookups :
                l.lookup.kind = IF sharded.num_shards = 1 THEN "local"
                                ELSE "sharded"
    /\ (sharded.pc = "returned" /\ sharded.status # "ok")
       => /\ sharded.status = "start_status"
          /\ sharded.initializer = "ShardedServerInitializer"
          /\ sharded.finished_init = {} /\ sharded.lookups = {}
    /\ sharded.pc # "returned" => sharded.finished_init = {} /\ sharded.lookups = {}

\* the sharded initializer returned OK with three sharded lookups
C37_Witness ==
    /\ sharded.pc = "returned" /\ sharded.status = "ok"
    /\ sharded.num_shards = 2
    /\ Cardinality({l.lookup : l \in sharded.lookups}) = 3

\* the non-sharded initializer returned OK with three local lookups
C37_WitnessLocal ==
    /\ sharded.pc = "returned" /\ sharded.status = "ok"
    /\ sharded.num_shards = 1
    /\ \A l \in sharded.lookups : l.lookup.kind = "local"
    /\ Cardinality({l.lookup : l \in sharded.lookups}) = 3

\* the start of the shard manager failed and the error was returned
C37_WitnessStartFailed ==
    /\ sharded.pc = "returned" /\ sharded.status = "start_status"
    /\ sharded.shard_manager

\* the namespaces of a V1 request in the order of the arguments
NamespacesOf(v1_request) ==
    <<[tag |-> "keys", list |-> v1_request.keys],
      [tag |-> "renderUrls", list |-> v1_request.render_urls],
      [tag |-> "adComponentRenderUrls", list |-> v1_request.ad_component_render_urls],
      [tag |-> "kvInternal", list |-> v1_request.kv_internal]>>

NonEmptyNamespace(n) == n.list # <<>>

\* C38: the V2 request built from a V1 request has exactly one partition, its
\* metadata hostname is the subkey of the V1 request, and the partition has
\* one argument for every namespace that is not empty, in the order keys,
\* renderUrls, adComponentRenderUrls, kvInternal, each with the tags
\* ["custom", namespace] and the keys of the namespace in request order
C38_BuildV2Request ==
    v1.done =>
      LET expected == SelectSeq(NamespacesOf(v1.v1_request), NonEmptyNamespace)
          partitions == v1.v2_request.partitions
      IN /\ v1.v2_request.metadata = v1.v1_request.subkey
         /\ Len(partitions) = 1
         /\ Len(partitions[1].arguments) = Len(expected)
         /\ \A i \in 1..Len(expected) :
               /\ partitions[1].arguments[i].tags = <<"custom", expected[i].tag>>
               /\ partitions[1].arguments[i].data = expected[i].list

\* a request with two keys, no render URLs and an internal key was translated
C38_Witness ==
    /\ v1.done
    /\ v1.v1_request.keys = <<"k2", "k1">>
    /\ v1.v1_request.render_urls = <<>>
    /\ v1.v1_request.kv_internal = <<"i1">>
    /\ v1.v1_request.subkey = "www.example.com"
    /\ Len(v1.v2_request.partitions[1].arguments) \in {2, 3}

V1Namespaces == {"kv_internal", "keys", "render_urls", "ad_component_render_urls"}

\* the positions of the counter increments made for a namespace
EventsOf(namespace) ==
    {i \in DOMAIN handler.events : handler.events[i].namespace = namespace}

\* C39: with use_v2 the handler answers through the adapter alone: the cache
\* is not read and no counter is incremented; without use_v2 the adapter is
\* not called, for every namespace of the request that is not empty exactly
\* one of CacheKeyHit and CacheKeyMiss is incremented, and only keys that are
\* in the cache appear in the response of the namespace
C39_Routing ==
    handler.done =>
      IF handler.use_v2_
      THEN /\ handler.adapter_calls = 1
           /\ handler.cache_reads = <<>>
           /\ handler.events = <<>>
           /\ handler.status = handler.adapter.status
           /\ handler.response = handler.adapter.response
      ELSE /\ handler.adapter_calls = 0
           /\ handler.status = GrpcOk
           /\ \A ns \in V1Namespaces :
                 IF handler.request[ns] = <<>>
                 THEN EventsOf(ns) = {} /\ DOMAIN handler.response[ns] = {}
                 ELSE /\ Cardinality(EventsOf(ns)) = 1
                      /\ \A i \in EventsOf(ns) :
                            /\ handler.events[i].counter \in {"CacheKeyHit", "CacheKeyMiss"}
                            /\ handler.events[i].counter = "CacheKeyHit"
                               <=> DOMAIN handler.response[ns] # {}
                      /\ DOMAIN handler.response[ns] \subseteq DOMAIN handler.cache_

\* a request answered from the cache with a hit for keys, where k3 was asked
\* for and is not in the cache, and a miss for render_urls
C39_Witness ==
    /\ handler.done /\ ~handler.use_v2_
    /\ handler.request.keys = <<<<"k1", "k2">>, <<"k3">>>>
    /\ DOMAIN handler.response.keys = {"k1", "k2"}
    /\ handler.request.render_urls = <<<<"k1">>>>
    /\ handler.request.kv_internal = <<>>
    /\ \E i \in DOMAIN handler.events : handler.events[i].counter = "CacheKeyHit"

\* a request answered by the adapter
C39_WitnessV2 ==
    /\ handler.done /\ handler.use_v2_
    /\ handler.request.keys # <<>>
    /\ DOMAIN handler.cache_ # {}
    /\ handler.adapter_calls = 1

\* C40: GetParameter terminates for every outcome of the underlying call:
\* every call of a getter returns, with Unavailable when the underlying call
\* failed synchronously, also when its callback is never run
C40_Terminates ==
    /\ <>(param.pc = "returned")
    /\ [](param.pc = "returned" /\ ~param.behaviour.execution_result
           => param.returned.code = "UNAVAILABLE")

\* a getter returned Unavailable after a synchronous failure whose callback
\* was run
C40_ReturnedUnavailable ==
    /\ param.pc = "returned"
    /\ ~param.behaviour.execution_result
    /\ param.callback = "ran"
    /\ param.returned.code = "UNAVAILABLE"

\* the caller is blocked in counter.Wait() after a synchronous failure whose
\* callback is never run
C40_Blocked ==
    /\ param.pc = "Wait"
    /\ ~param.execution_result
    /\ param.callback = "never"
    /\ param.counter = 1

====
